---- MODULE Spec2Model ----
(***************************************************************************)
(* V2MIDI: the Port of src/MIDI/Port.h (inbound dispatch with SysEx        *)
(* reassembly, outbound send and chunked SysEx transmission, statistics),  *)
(* the Packet of src/MIDI/Packet.h, the serial parser of                   *)
(* src/MIDI/SerialDevice.h, the 14-bit controllers of                      *)
(* src/MIDI/CCHighResolution.h, the clock of src/MIDI/Clock.h and the      *)
(* Standard MIDI File player of src/MIDI/File.h.                           *)
(*                                                                         *)
(* A byte is a number 0..255, a Packet is the tuple <<b0, b1, b2, b3>> of  *)
(* its four bytes (_data[0..3]).                                           *)
(***************************************************************************)
EXTENDS Integers, Sequences, FiniteSets, TLC

VARIABLES
  index,        \* Port::_index, the constructor's port number
  sysexSize,    \* Port::_sysexSize, the capacity of both SysEx buffers
  sysex,        \* Port::_sysex: [in |-> [buffer, length, appending],
                \*                out |-> [transport, buffer, length, position]]
  statistics,   \* Port::_statistics: [input |-> Counter, output |-> Counter]
  op,           \* the operation called last
  pkt,          \* the packet handed to the last dispatch() or send(), as handed in
  ret,          \* the value the last operation returned (0 for void)
  calls,        \* the handler invocations of the last operation, in order
  offers,       \* the frames the last operation offered for sending: [pkt, via, ok]
  wire,         \* the frames accepted for sending since the outbound SysEx transmission
                \* began, while tx is "active" or "done" (empty otherwise)
  fed,          \* the payload bytes of the SysEx stream fed since the inbound side was idle
  fedSt,        \* "fresh", "open", "done" or "void": how far that stream is well formed
  fedCalls,     \* SysEx handler invocations since the inbound side was idle
  cut,          \* "overflow" or "reset" while frames of an inbound stream that was
                \* discarded for that reason may still arrive, else "none"
  tx,           \* "idle", "active", "done", "aborted": the outbound SysEx transmission
  serial,       \* SerialDevice: [state, channel, status, data1, statistics]
  midi,         \* the Packet the caller hands to SerialDevice::receive()
  rxBytes,      \* the bytes receive() has read from the UART, in order
  rxOut,        \* the packets receive() returned true for: [at, data], at being the
                \* number of bytes read when it was returned
  packet,       \* a Packet object the encoding operations are called on
  enc,          \* the encoding calls on it: [n, call, ret, before, cin, port]: how
                \* many, the last with its arguments, what it returned, the bytes
                \* before it, the code index number that goes with the status
                \* encoded last (-1 if none) and the port set last
  controllers,  \* HighResolution::_controllers: index -> [state, msb, value]
  ccLog,        \* [reset, calls]: whether reset() was ever called, and the setByte()
                \* calls since it was (or since construction): [controller, value,
                \* changed, now], now being the value of the pair after the call
  clock,        \* Clock: [run, tick]
  song,         \* what was received since the last Start event: [started, playing,
                \* ticks, paused, beats]
  quarters,     \* [event, beats]: the event of the last update() ("none" after another
                \* operation) and the arguments of its handleQuarter() calls
  tracks,       \* File::Tracks: [state, data, header, tracks, play]
  played,       \* what the Tracks object did: [n, ok, tag, reported, sends, state,
                \* stops, passed]: the number of load(), play(), stop() and copyTag()
                \* calls, what the last load() or play() returned, what the last
                \* copyTag() returned, the states the last operation reported with
                \* handleStateChange(), the handleSend() calls [track, packet] since
                \* the last play(), the state reported last ("none" if none), the
                \* number of times Stop was reported since the last play(), and the
                \* microseconds passed between the last two run() calls
  vlq           \* a variable-length number and what readNumber() made of it: [bits,
                \* data, at, read, number, cursor]

\* the state of the Port and its history
portVars == <<index, sysexSize, sysex, statistics, pkt, calls, offers, wire,
              fed, fedSt, fedCalls, cut, tx>>
\* the state of the SerialDevice and its history
serialVars == <<serial, midi, rxBytes, rxOut>>
\* the state of the Packet object and its history
packetVars == <<packet, enc>>
\* the state of the controllers and their history
ccVars == <<controllers, ccLog>>
\* the state of the Clock and its history
clockVars == <<clock, quarters, song>>
\* the state of the Tracks object and its history
fileVars == <<tracks, played, vlq>>

vars == <<index, sysexSize, sysex, statistics, op, pkt, ret, calls, offers, wire,
          fed, fedSt, fedCalls, cut, tx, serial, midi, rxBytes, rxOut, packet, enc,
          controllers, ccLog, clock, quarters, song, tracks, played, vlq>>

(***************************************************************************)
(* Bounds of the model.                                                    *)
(***************************************************************************)
\* largest SysEx buffer capacity a Port is constructed with
MaxSysexSize == 7
\* dispatch() calls per behaviour (input.packet is capped by it)
MaxDispatch == 3
\* frames accepted for sending per behaviour (output.packet is capped by it)
MaxWire == 4
\* dispatch() calls plus frames accepted for sending per behaviour of the whole Port
MaxCalls == 3
\* bytes the serial parser reads per behaviour
MaxSerial == 5
\* encoding operations called on the Packet object per behaviour
MaxEncode == 3
\* setByte() calls between two reset() calls
MaxSetByte == 3
MaxTable == 4
\* load(), play(), stop() and copyTag() calls on the Tracks object
MaxFileCalls == 3
\* the tick a Clock counts up to
MaxTick == 50

(***************************************************************************)
(* Packet.h: code index numbers and status bytes.                          *)
(***************************************************************************)
CinSystemCommon2 == 2
CinSystemCommon3 == 3
CinSystemExclusiveStart == 4
CinSystemExclusiveEnd1 == 5
CinSystemExclusiveEnd2 == 6
CinSystemExclusiveEnd3 == 7
CinNoteOff == 8
CinNoteOn == 9
CinAftertouch == 10
CinControlChange == 11
CinProgramChange == 12
CinAftertouchChannel == 13
CinPitchBend == 14
CinSingleByte == 15

NoteOff == 128
NoteOn == 144
Aftertouch == 160
ControlChange == 176
ProgramChange == 192
AftertouchChannel == 208
PitchBend == 224
System == 240
SystemExclusive == 240
SystemTimeCodeQuarterFrame == 241
SystemSongPosition == 242
SystemSongSelect == 243
SystemTuneRequest == 246
SystemExclusiveEnd == 247
SystemClock == 248
SystemStart == 250
SystemContinue == 251
SystemStop == 252
SystemActiveSensing == 254
SystemReset == 255

\* uint8_t arithmetic.  The uint32_t lengths and counters stay below the bounds of
\* the model, far from 2^32, and are plain integers.
U8(x) == x % 256

\* Packet::getStatus(b): the status with the channel removed, system statuses verbatim
getStatus(b) ==
  IF (b \div 16) * 16 # System THEN (b \div 16) * 16 ELSE b

\* Packet::getType()
getType(p) == getStatus(p[2])

\* Packet::getChannel()
getChannel(p) == p[2] % 16

\* hi << 7 | lo on bytes: bit 7 of lo falls on bit 0 of hi
Or7(hi, lo) ==
  (IF lo >= 128 THEN hi - (hi % 2) + 1 ELSE hi) * 128 + (lo % 128)

\* conversion of a uint16_t to int16_t
Int16(u) == IF u >= 32768 THEN u - 65536 ELSE u

\* Packet::getPitchBend(): int16_t(d3 << 7 | d2) - 8192, returned as uint16_t
getPitchBend(p) == (Or7(p[4], p[3]) - 8192 + 65536) % 65536

\* Packet::getSongPosition(): uint16_t(d3 << 7 | d2)
getSongPosition(p) == Or7(p[4], p[3]) % 65536

\* Packet::setPort(port): _data[0] &= 0x0f; _data[0] |= port << 4
setPort(p, port) == <<U8((p[1] % 16) + U8(port * 16)), p[2], p[3], p[4]>>

\* the code index number dispatch() switches on: _data[0] & 0x0f
Cin(p) == p[1] % 16

(***************************************************************************)
(* Port.h: the inbound SysEx buffer.  buffer holds the bytes at the        *)
(* indexes 0..length-1; the bytes beyond length are never read by the      *)
(* code and are left out.                                                  *)
(***************************************************************************)
\* _sysex.in.reset()
InReset(in) == [in EXCEPT !.buffer = <<>>, !.length = 0, !.appending = FALSE]

\* _sysex.in.length = 0
InRewind(in) == [in EXCEPT !.buffer = <<>>, !.length = 0]

\* _sysex.in.buffer[_sysex.in.length++] = b
InPut(in, b) ==
  [in EXCEPT !.buffer = Append(SubSeq(in.buffer, 1, in.length), b),
             !.length = in.length + 1]

\* the outcome of storeSystemExclusive(): the inbound buffer, the return value and
\* the packet, whose status byte the function may rewrite
Stored(in, ok, p) == [in |-> in, ok |-> ok, p |-> p]

\* the tail of storeSystemExclusive() after a complete message: "Always return
\* 'SystemExclusive' as type"
StoreComplete(in, p) ==
  Stored([in EXCEPT !.appending = FALSE], TRUE, <<p[1], SystemExclusive, p[3], p[4]>>)

\* StoreSingleByte without the check for a stream in progress: the frame always
\* passes as a message
StoreSingleByteNoAppend(in, size, p) == Stored(InReset(in), TRUE, p)

\* StoreSingleByte without the capacity check: the byte is always appended to a
\* stream in progress
StoreSingleByteUnchecked(in, size, p) ==
  IF ~in.appending THEN Stored(InReset(in), TRUE, p)
  ELSE Stored(InPut(in, p[2]), FALSE, p)

\* case CodeIndex::SingleByte
StoreSingleByte(in, size, p) ==
  IF ~in.appending THEN Stored(InReset(in), TRUE, p)
  ELSE IF in.length + 1 > size THEN Stored(InReset(in), FALSE, p)
  ELSE Stored(InPut(in, p[2]), FALSE, p)

\* case CodeIndex::SystemExclusiveStart
StoreStart(in, size, p) ==
  IF in.length + 3 > size THEN Stored(InReset(in), FALSE, p)
  ELSE IF ~in.appending /\ p[2] # SystemExclusive THEN Stored(InRewind(in), FALSE, p)
  ELSE LET a == IF in.appending THEN in
                ELSE [InRewind(in) EXCEPT !.appending = TRUE]
       IN Stored(InPut(InPut(InPut(a, p[2]), p[3]), p[4]), FALSE, p)

\* StoreEnd1 with the capacity check off by one (>= for >)
StoreEnd1OffByOne(in, size, p) ==
  IF p[2] # SystemExclusiveEnd THEN Stored(InReset(in), FALSE, p)
  ELSE IF ~in.appending THEN Stored(InRewind(in), FALSE, p)
  ELSE IF in.length + 1 >= size THEN Stored(InReset(in), FALSE, p)
  ELSE StoreComplete(InPut(in, p[2]), p)

\* case CodeIndex::SystemExclusiveEnd1
StoreEnd1(in, size, p) ==
  IF p[2] # SystemExclusiveEnd THEN Stored(InReset(in), FALSE, p)
  ELSE IF ~in.appending THEN Stored(InRewind(in), FALSE, p)
  ELSE IF in.length + 1 > size THEN Stored(InReset(in), FALSE, p)
  ELSE StoreComplete(InPut(in, p[2]), p)

\* case CodeIndex::SystemExclusiveEnd2
StoreEnd2(in, size, p) ==
  IF p[3] # SystemExclusiveEnd THEN Stored(InReset(in), FALSE, p)
  ELSE IF in.length + 2 > size THEN Stored(InReset(in), FALSE, p)
  ELSE IF ~in.appending /\ p[2] # SystemExclusive THEN Stored(InRewind(in), FALSE, p)
  ELSE LET a == IF in.appending THEN in ELSE InRewind(in)
       IN StoreComplete(InPut(InPut(a, p[2]), p[3]), p)

\* case CodeIndex::SystemExclusiveEnd3
StoreEnd3(in, size, p) ==
  IF p[4] # SystemExclusiveEnd THEN Stored(InReset(in), FALSE, p)
  ELSE IF in.length + 3 > size THEN Stored(InReset(in), FALSE, p)
  ELSE IF ~in.appending /\ p[2] # SystemExclusive THEN Stored(InRewind(in), FALSE, p)
  ELSE LET a == IF in.appending THEN in ELSE InRewind(in)
       IN StoreComplete(InPut(InPut(InPut(a, p[2]), p[3]), p[4]), p)

\* storeSystemExclusive without the reset for a message frame: the stream in progress
\* stays open
storeSystemExclusiveKeep(in, size, p) ==
  LET cin == Cin(p) IN
  IF cin \in {CinSystemCommon2, CinSystemCommon3} \/ cin \in CinNoteOff..CinPitchBend
    THEN Stored(in, TRUE, p)
  ELSE IF cin = CinSingleByte THEN StoreSingleByte(in, size, p)
  ELSE IF cin = CinSystemExclusiveStart THEN StoreStart(in, size, p)
  ELSE IF cin = CinSystemExclusiveEnd1 THEN StoreEnd1(in, size, p)
  ELSE IF cin = CinSystemExclusiveEnd2 THEN StoreEnd2(in, size, p)
  ELSE IF cin = CinSystemExclusiveEnd3 THEN StoreEnd3(in, size, p)
  ELSE Stored(InReset(in), FALSE, p)

\* Port::storeSystemExclusive(packet)
storeSystemExclusive(in, size, p) ==
  LET cin == Cin(p) IN
  IF cin \in {CinSystemCommon2, CinSystemCommon3} \/ cin \in CinNoteOff..CinPitchBend
    THEN Stored(InReset(in), TRUE, p)
  ELSE IF cin = CinSingleByte THEN StoreSingleByte(in, size, p)
  ELSE IF cin = CinSystemExclusiveStart THEN StoreStart(in, size, p)
  ELSE IF cin = CinSystemExclusiveEnd1 THEN StoreEnd1(in, size, p)
  ELSE IF cin = CinSystemExclusiveEnd2 THEN StoreEnd2(in, size, p)
  ELSE IF cin = CinSystemExclusiveEnd3 THEN StoreEnd3(in, size, p)
  ELSE Stored(InReset(in), FALSE, p)

(***************************************************************************)
(* Port.h: statistics and dispatch().                                      *)
(***************************************************************************)
\* struct Counter, value-initialised
Counter ==
  [packet |-> 0, note |-> 0, noteOff |-> 0, aftertouch |-> 0, control |-> 0,
   program |-> 0, aftertouchChannel |-> 0, pitchbend |-> 0,
   system |-> [clock |-> [tick |-> 0], exclusive |-> 0, reset |-> 0]]

\* the counter increments of dispatch()'s switch (packet->getType())
DispatchCount(c, p) ==
  LET t == getType(p) IN
  CASE t = NoteOn -> [c EXCEPT !.note = @ + 1]
    [] t = NoteOff -> [c EXCEPT !.noteOff = @ + 1]
    [] t = Aftertouch -> [c EXCEPT !.aftertouch = @ + 1]
    [] t = ControlChange -> [c EXCEPT !.control = @ + 1]
    [] t = ProgramChange -> [c EXCEPT !.program = @ + 1]
    [] t = AftertouchChannel -> [c EXCEPT !.aftertouchChannel = @ + 1]
    [] t = PitchBend -> [c EXCEPT !.pitchbend = @ + 1]
    [] t = SystemClock -> [c EXCEPT !.system.clock.tick = @ + 1]
    [] t = SystemExclusive -> [c EXCEPT !.system.exclusive = @ + 1]
    [] t = SystemReset -> [c EXCEPT !.system.reset = @ + 1]
    [] OTHER -> c

\* the handler calls of dispatch()'s switch (packet->getType()); the two overloads of
\* handleSystemExclusive are told apart as ...T (with transport) and plain
DispatchTyped(transport, p, in) ==
  LET t == getType(p) IN
  CASE t = NoteOn -> << <<"handleNote", getChannel(p), p[3], p[4]>> >>
    [] t = NoteOff -> << <<"handleNoteOff", getChannel(p), p[3], p[4]>> >>
    [] t = Aftertouch -> << <<"handleAftertouch", getChannel(p), p[3], p[4]>> >>
    [] t = ControlChange -> << <<"handleControlChange", getChannel(p), p[3], p[4]>> >>
    [] t = ProgramChange -> << <<"handleProgramChange", getChannel(p), p[3]>> >>
    [] t = AftertouchChannel -> << <<"handleAftertouchChannel", getChannel(p), p[3]>> >>
    [] t = PitchBend -> << <<"handlePitchBend", getChannel(p), Int16(getPitchBend(p))>> >>
    [] t = SystemSongPosition -> << <<"handleSongPosition", getSongPosition(p)>> >>
    [] t = SystemSongSelect -> << <<"handleSongSelect", p[3]>> >>
    [] t = SystemClock -> << <<"handleClock", "Tick">> >>
    [] t = SystemStart -> << <<"handleClock", "Start">> >>
    [] t = SystemContinue -> << <<"handleClock", "Continue">> >>
    [] t = SystemStop -> << <<"handleClock", "Stop">> >>
    [] t = SystemExclusive ->
         << <<"handleSystemExclusiveT", transport, in.buffer, in.length>>,
            <<"handleSystemExclusive", in.buffer, in.length>> >>
    [] t = SystemReset -> << <<"handleSystemReset">> >>
    [] OTHER -> << >>

\* the handler calls of dispatch() once storeSystemExclusive() returned true
DispatchCalls(transport, p, in) ==
  (IF getType(p) # SystemExclusive THEN << <<"handlePacket", p>> >> ELSE << >>)
    \o DispatchTyped(transport, p, in)

\* dispatch counting the packet only once storeSystemExclusive() returned true
dispatchLate(in, c, size, transport, p) ==
  LET st == storeSystemExclusive(in, size, p)
      c1 == [c EXCEPT !.packet = @ + 1]
  IN IF ~st.ok THEN [in |-> st.in, input |-> c, calls |-> << >>]
     ELSE [in |-> st.in, input |-> DispatchCount(c1, st.p),
           calls |-> DispatchCalls(transport, st.p, st.in)]

\* Port::dispatch(transport, packet): the inbound buffer, the input counters and the
\* handler calls it leaves
dispatch(in, c, size, transport, p) ==
  LET st == storeSystemExclusive(in, size, p)
      c1 == [c EXCEPT !.packet = @ + 1]
  IN IF ~st.ok THEN [in |-> st.in, input |-> c1, calls |-> << >>]
     ELSE [in |-> st.in, input |-> DispatchCount(c1, st.p),
           calls |-> DispatchCalls(transport, st.p, st.in)]

(***************************************************************************)
(* Port.h: the outbound side.                                              *)
(***************************************************************************)
\* _sysex.out.reset()
OutReset(out) == [out EXCEPT !.length = 0, !.position = 0]

\* LoopPacket without the port number in byte 0
LoopPacketNoPort(out, idx) ==
  LET remain == out.length - out.position
      b(i) == out.buffer[out.position + i + 1]
  IN CASE remain = 1 -> <<CinSystemExclusiveEnd1, b(0), 0, 0>>
       [] remain = 2 -> <<CinSystemExclusiveEnd2, b(0), b(1), 0>>
       [] remain = 3 -> <<CinSystemExclusiveEnd3, b(0), b(1), b(2)>>
       [] OTHER -> <<CinSystemExclusiveStart, b(0), b(1), b(2)>>

\* the packet loopSystemExclusive() builds from the bytes at the send position
LoopPacket(out, idx) ==
  LET remain == out.length - out.position
      b(i) == out.buffer[out.position + i + 1]
      b0(cin) == U8(U8(idx * 16) + cin)
  IN CASE remain = 1 -> <<b0(CinSystemExclusiveEnd1), b(0), 0, 0>>
       [] remain = 2 -> <<b0(CinSystemExclusiveEnd2), b(0), b(1), 0>>
       [] remain = 3 -> <<b0(CinSystemExclusiveEnd3), b(0), b(1), b(2)>>
       [] OTHER -> <<b0(CinSystemExclusiveStart), b(0), b(1), b(2)>>

\* whom loopSystemExclusive() hands the packet to
LoopVia(out) == IF out.transport = "NULL" THEN "handleSend" ELSE out.transport

\* loopSystemExclusive() taking a refused frame back out of the packet counter
loopSystemExclusiveUncount(out, c, idx, ok) ==
  IF out.length = 0 THEN [out |-> out, output |-> c, ret |-> 0, offers |-> << >>]
  ELSE
    LET remain == out.length - out.position
        offer == [pkt |-> LoopPacket(out, idx), via |-> LoopVia(out), ok |-> ok]
        c1 == [c EXCEPT !.packet = @ + 1]
    IN IF ~ok THEN [out |-> out, output |-> [c EXCEPT !.packet = @ - 1],
                     ret |-> -1, offers |-> <<offer>>]
       ELSE IF remain > 3
         THEN [out |-> [out EXCEPT !.position = @ + 3], output |-> c1,
               ret |-> 1, offers |-> <<offer>>]
       ELSE [out |-> [out EXCEPT !.transport = "NULL", !.length = 0],
             output |-> [c1 EXCEPT !.system.exclusive = @ + 1],
             ret |-> 0, offers |-> <<offer>>]

\* loopSystemExclusive() advancing the send position although the frame was refused
loopSystemExclusiveSkip(out, c, idx, ok) ==
  IF out.length = 0 THEN [out |-> out, output |-> c, ret |-> 0, offers |-> << >>]
  ELSE
    LET remain == out.length - out.position
        offer == [pkt |-> LoopPacket(out, idx), via |-> LoopVia(out), ok |-> ok]
        c1 == [c EXCEPT !.packet = @ + 1]
    IN IF ~ok THEN [out |-> [out EXCEPT !.position = IF remain > 3 THEN @ + 3 ELSE @],
                     output |-> c, ret |-> -1, offers |-> <<offer>>]
       ELSE IF remain > 3
         THEN [out |-> [out EXCEPT !.position = @ + 3], output |-> c1,
               ret |-> 1, offers |-> <<offer>>]
       ELSE [out |-> [out EXCEPT !.transport = "NULL", !.length = 0],
             output |-> [c1 EXCEPT !.system.exclusive = @ + 1],
             ret |-> 0, offers |-> <<offer>>]

\* loopSystemExclusive() answering a refused frame with 0, nothing to do
loopSystemExclusiveQuiet(out, c, idx, ok) ==
  IF out.length = 0 THEN [out |-> out, output |-> c, ret |-> 0, offers |-> << >>]
  ELSE
    LET remain == out.length - out.position
        offer == [pkt |-> LoopPacket(out, idx), via |-> LoopVia(out), ok |-> ok]
        c1 == [c EXCEPT !.packet = @ + 1]
    IN IF ~ok THEN [out |-> out, output |-> c, ret |-> 0, offers |-> <<offer>>]
       ELSE IF remain > 3
         THEN [out |-> [out EXCEPT !.position = @ + 3], output |-> c1,
               ret |-> 1, offers |-> <<offer>>]
       ELSE [out |-> [out EXCEPT !.transport = "NULL", !.length = 0],
             output |-> [c1 EXCEPT !.system.exclusive = @ + 1],
             ret |-> 0, offers |-> <<offer>>]

\* loopSystemExclusive() that leaves the transmission pending after the last frame
loopSystemExclusiveHold(out, c, idx, ok) ==
  IF out.length = 0 THEN [out |-> out, output |-> c, ret |-> 0, offers |-> << >>]
  ELSE
    LET remain == out.length - out.position
        offer == [pkt |-> LoopPacket(out, idx), via |-> LoopVia(out), ok |-> ok]
        c1 == [c EXCEPT !.packet = @ + 1]
    IN IF ~ok THEN [out |-> out, output |-> c, ret |-> -1, offers |-> <<offer>>]
       ELSE IF remain > 3
         THEN [out |-> [out EXCEPT !.position = @ + 3], output |-> c1,
               ret |-> 1, offers |-> <<offer>>]
       ELSE [out |-> out, output |-> c1, ret |-> 1, offers |-> <<offer>>]

\* Port::loopSystemExclusive(), ok being the answer of the transport (or of
\* handleSend) if it is asked: the outbound state, the output counters, the return
\* value and the offer made
loopSystemExclusive(out, c, idx, ok) ==
  IF out.length = 0 THEN [out |-> out, output |-> c, ret |-> 0, offers |-> << >>]
  ELSE
    LET remain == out.length - out.position
        offer == [pkt |-> LoopPacket(out, idx), via |-> LoopVia(out), ok |-> ok]
        c1 == [c EXCEPT !.packet = @ + 1]
    IN IF ~ok THEN [out |-> out, output |-> c, ret |-> -1, offers |-> <<offer>>]
       ELSE IF remain > 3
         THEN [out |-> [out EXCEPT !.position = @ + 3], output |-> c1,
               ret |-> 1, offers |-> <<offer>>]
       ELSE [out |-> [out EXCEPT !.transport = "NULL", !.length = 0],
             output |-> [c1 EXCEPT !.system.exclusive = @ + 1],
             ret |-> 0, offers |-> <<offer>>]

\* while (loopSystemExclusive() > 0); with a transport that accepts n more frames
\* and then refuses
RECURSIVE Pump(_, _, _, _, _)
Pump(out, c, idx, n, done) ==
  LET r == loopSystemExclusive(out, c, idx, n > 0)
      all == done \o r.offers
  IN IF r.ret > 0 THEN Pump(r.out, r.output, idx, n - 1, all)
     ELSE [out |-> r.out, output |-> r.output, offers |-> all]

\* the client copies msg to the start of getSystemExclusiveBuffer().  buffer holds
\* the bytes of the message copied last; the code reads no byte behind it
Fill(buffer, msg) == msg

\* Port::sendSystemExclusive(transport, length) after the client has copied msg
\* into getSystemExclusiveBuffer(), length being Len(msg)
sendSystemExclusive(out, c, idx, transport, msg, n) ==
  LET filled == [out EXCEPT !.buffer = Fill(@, msg)]
      length == Len(msg)
  IN IF length < 2 THEN [out |-> filled, output |-> c, offers |-> << >>]
     ELSE IF msg[1] # SystemExclusive THEN [out |-> filled, output |-> c, offers |-> << >>]
     ELSE IF msg[length] # SystemExclusiveEnd
       THEN [out |-> filled, output |-> c, offers |-> << >>]
     ELSE Pump([filled EXCEPT !.transport = transport, !.length = length,
                              !.position = 0], c, idx, n, << >>)

\* the counter increments of send()'s switch (packet->getType())
SendCount(c, p) ==
  LET t == getType(p) IN
  CASE t = NoteOn -> [c EXCEPT !.note = @ + 1]
    [] t = NoteOff -> [c EXCEPT !.noteOff = @ + 1]
    [] t = Aftertouch -> [c EXCEPT !.aftertouch = @ + 1]
    [] t = ControlChange -> [c EXCEPT !.control = @ + 1]
    [] t = ProgramChange -> [c EXCEPT !.program = @ + 1]
    [] t = AftertouchChannel -> [c EXCEPT !.aftertouchChannel = @ + 1]
    [] t = PitchBend -> [c EXCEPT !.pitchbend = @ + 1]
    [] t = SystemClock -> [c EXCEPT !.system.clock.tick = @ + 1]
    [] t = SystemReset -> [c EXCEPT !.system.reset = @ + 1]
    [] OTHER -> c

\* send() without the check for a SysEx transfer in progress
sendAlways(out, c, idx, p, ok) ==
  LET q == setPort(p, idx)
      offer == [pkt |-> q, via |-> "handleSend", ok |-> ok]
  IN IF ~ok THEN [output |-> c, ret |-> FALSE, offers |-> <<offer>>]
     ELSE [output |-> SendCount([c EXCEPT !.packet = @ + 1], q),
           ret |-> TRUE, offers |-> <<offer>>]

\* send() counting the packet before handleSend() is asked
sendEarly(out, c, idx, p, ok) ==
  IF out.length > 0 THEN [output |-> c, ret |-> FALSE, offers |-> << >>]
  ELSE
    LET q == setPort(p, idx)
        offer == [pkt |-> q, via |-> "handleSend", ok |-> ok]
    IN IF ~ok THEN [output |-> [c EXCEPT !.packet = @ + 1], ret |-> FALSE,
                     offers |-> <<offer>>]
       ELSE [output |-> SendCount([c EXCEPT !.packet = @ + 1], q),
             ret |-> TRUE, offers |-> <<offer>>]

\* Port::send(packet), ok being the answer of handleSend if it is asked
send(out, c, idx, p, ok) ==
  IF out.length > 0 THEN [output |-> c, ret |-> FALSE, offers |-> << >>]
  ELSE
    LET q == setPort(p, idx)
        offer == [pkt |-> q, via |-> "handleSend", ok |-> ok]
    IN IF ~ok THEN [output |-> c, ret |-> FALSE, offers |-> <<offer>>]
       ELSE [output |-> SendCount([c EXCEPT !.packet = @ + 1], q),
             ret |-> TRUE, offers |-> <<offer>>]

\* resetSystemExclusive() that resets the inbound side only
resetSystemExclusiveIn(sx) == [in |-> InReset(sx.in), out |-> sx.out]

\* Port::resetSystemExclusive()
resetSystemExclusive(sx) == [in |-> InReset(sx.in), out |-> OutReset(sx.out)]

(***************************************************************************)
(* The inputs the operations are called with.                              *)
(***************************************************************************)
\* port numbers a Port is constructed with
PortIndexes == {5}

\* transports handed to dispatch() and sendSystemExclusive(); "NULL" is no transport
Transports == {"usb"}

\* byte 1 of an inbound frame: a data byte, the SysEx start and end, a real-time
\* status (clock) and a channel status (NoteOn)
Byte1 == {1, SystemExclusive, SystemExclusiveEnd, SystemClock, NoteOn}
\* bytes 2 and 3 of an inbound frame: a data byte or the SysEx end
Byte2 == {2, SystemExclusiveEnd}
Byte3 == {3, SystemExclusiveEnd}

\* the inbound frames.  SysEx start and end frames (code index 4, 6, 7) carry every
\* combination of these bytes, a one-byte end frame (5) zero padding; a reserved (0),
\* cable (1), SystemCommon3 (3), NoteOn (9) or single-byte (15) frame carries any
\* first byte and two data bytes
Frames ==
  {<<cin, b1, b2, b3>> : cin \in {4, 7}, b1 \in Byte1, b2 \in Byte2, b3 \in Byte3}
    \cup {<<6, b1, b2, 0>> : b1 \in Byte1, b2 \in Byte2}
    \cup {<<5, b1, 0, 0>> : b1 \in Byte1}
    \cup {<<cin, b1, 2, 3>> : cin \in {0, 1, 3, 9, 15}, b1 \in Byte1}

\* the frames a transport delivers for complete messages: a channel-voice message
\* under the code index of its status, SongPosition under SystemCommon3, SongSelect
\* and TimeCodeQuarterFrame under SystemCommon2, a real-time status as a single byte
MessageFrames ==
  {<<s \div 16, s + 2, 60, 100>> :
      s \in {NoteOff, NoteOn, Aftertouch, ControlChange, PitchBend}}
    \cup {<<s \div 16, s + 2, 5, 0>> : s \in {ProgramChange, AftertouchChannel}}
    \cup {<<CinSystemCommon3, SystemSongPosition, 1, 2>>,
           <<CinSystemCommon2, SystemSongSelect, 5, 0>>,
           <<CinSystemCommon2, SystemTimeCodeQuarterFrame, 5, 0>>}
    \cup {<<CinSingleByte, s, 0, 0>> :
            s \in {SystemClock, SystemStart, SystemContinue, SystemStop,
                    SystemActiveSensing, SystemReset}}

\* the frames of SysEx streams: a start, a continuation, the three end frames, and
\* the two messages that fit in one frame
StreamFrames ==
  {<<CinSystemExclusiveStart, SystemExclusive, 1, 2>>,
   <<CinSystemExclusiveStart, 3, 4, 5>>,
   <<CinSystemExclusiveEnd1, SystemExclusiveEnd, 0, 0>>,
   <<CinSystemExclusiveEnd2, 6, SystemExclusiveEnd, 0>>,
   <<CinSystemExclusiveEnd3, 6, 7, SystemExclusiveEnd>>,
   <<CinSystemExclusiveEnd2, SystemExclusive, SystemExclusiveEnd, 0>>,
   <<CinSystemExclusiveEnd3, SystemExclusive, 1, SystemExclusiveEnd>>}

\* what sendSystemExclusive() requires of the message of the given length
WellFormed(msg) ==
  Len(msg) >= 2 /\ msg[1] = 240 /\ msg[Len(msg)] = 247

\* an outbound message of length n >= 2: 0xF0, inner bytes 2, 3, ..., 0xF7
OutMessage(n) ==
  [i \in 1..n |-> IF i = 1 THEN SystemExclusive
                  ELSE IF i = n THEN SystemExclusiveEnd ELSE i]

\* the messages a client copies into the outbound buffer: well-formed ones, ones whose
\* first or last byte is wrong, and ones shorter than two bytes
OutMessages(size) ==
  {m \in {OutMessage(n) : n \in 2..MaxSysexSize}
       \cup {[OutMessage(3) EXCEPT ![1] = 1], [OutMessage(3) EXCEPT ![3] = 1],
              << >>, <<SystemExclusive>>} : Len(m) <= size}

\* the packets handed to send(): NoteOn, ControlChange, clock, each with a cable
\* number of its own
SendPackets == {<<16 + 9, NoteOn + 2, 60, 100>>, <<11, ControlChange, 7, 1>>,
                <<240 + 15, SystemClock, 0, 0>>}

(***************************************************************************)
(* History kept for the properties: what a well-formed inbound stream      *)
(* carries, computed from the frames alone.                                *)
(***************************************************************************)
IsData(b) == b < 128

\* the next stage of the stream fed since the inbound side was idle, and its bytes
FedStep(st, f, p) ==
  LET cin == Cin(p)
      void == [st |-> "void", fed |-> << >>]
  IN CASE st = "fresh" /\ cin = 4 /\ p[2] = 240 /\ IsData(p[3]) /\ IsData(p[4]) ->
            [st |-> "open", fed |-> <<p[2], p[3], p[4]>>]
       [] st = "fresh" /\ cin = 6 /\ p[2] = 240 /\ p[3] = 247 ->
            [st |-> "done", fed |-> <<p[2], p[3]>>]
       [] st = "fresh" /\ cin = 7 /\ p[2] = 240 /\ IsData(p[3]) /\ p[4] = 247 ->
            [st |-> "done", fed |-> <<p[2], p[3], p[4]>>]
       [] st = "open" /\ cin = 4 /\ IsData(p[2]) /\ IsData(p[3]) /\ IsData(p[4]) ->
            [st |-> "open", fed |-> f \o <<p[2], p[3], p[4]>>]
       [] st = "open" /\ cin = 5 /\ p[2] = 247 ->
            [st |-> "done", fed |-> f \o <<p[2]>>]
       [] st = "open" /\ cin = 6 /\ IsData(p[2]) /\ p[3] = 247 ->
            [st |-> "done", fed |-> f \o <<p[2], p[3]>>]
       [] st = "open" /\ cin = 7 /\ IsData(p[2]) /\ IsData(p[3]) /\ p[4] = 247 ->
            [st |-> "done", fed |-> f \o <<p[2], p[3], p[4]>>]
       [] OTHER -> void

\* the payload bytes a SysEx or single-byte frame carries
Payload(cin) == CASE cin = 4 -> 3 [] cin = 5 -> 1 [] cin = 6 -> 2 [] cin = 7 -> 3 [] OTHER -> 1

\* appending frame p to the stream in progress would exceed the capacity
Overflows(in, size, p) ==
  in.appending /\ Cin(p) \in {4, 5, 6, 7, 15} /\ in.length + Payload(Cin(p)) > size

\* a continuation or end frame as the rest of a well-formed stream holds them: data
\* bytes, closed by 0xF7 in an end frame
StreamTail(p) ==
  \/ Cin(p) = 4 /\ IsData(p[2]) /\ IsData(p[3]) /\ IsData(p[4])
  \/ Cin(p) = 5 /\ p[2] = 247
  \/ Cin(p) = 6 /\ IsData(p[2]) /\ p[3] = 247
  \/ Cin(p) = 7 /\ IsData(p[2]) /\ IsData(p[3]) /\ p[4] = 247

\* the code indexes storeSystemExclusive() passes as one complete message
IsMessageCin(cin) ==
  cin \in {CinSystemCommon2, CinSystemCommon3} \/ cin \in CinNoteOff..CinPitchBend

\* what was received since the last Start event, until setBeat() or reset(): whether
\* the sender is playing (after Start or Continue, until Stop), the Tick events
\* received while it was playing, whether a Stop event has paused it, and the
\* arguments of the handleQuarter() calls
NoSong ==
  [started |-> FALSE, playing |-> FALSE, ticks |-> 0, paused |-> FALSE,
   beats |-> << >>]

SongStep(s, event, beats) ==
  CASE event = "Start" ->
         [started |-> TRUE, playing |-> TRUE, ticks |-> 0, paused |-> FALSE,
          beats |-> << >>]
    [] ~s.started -> s
    [] event = "Tick" ->
         [s EXCEPT !.ticks = IF s.playing THEN @ + 1 ELSE @, !.beats = @ \o beats]
    [] event = "Continue" -> [s EXCEPT !.playing = TRUE]
    [] event = "Stop" ->
         [s EXCEPT !.playing = FALSE, !.paused = @ \/ s.playing]

\* whether frames of a discarded stream may still arrive after frame p: a discard by
\* overflow or by a message frame in the open stream starts it, continuation and
\* single-byte frames keep it, any other frame (an end frame, a new start) ends it
CutStep(c, in, size, p) ==
  IF Overflows(in, size, p) THEN "overflow"
  ELSE IF in.appending /\ IsMessageCin(Cin(p)) THEN "message"
  ELSE IF c # "none" /\ (Cin(p) = 15 \/ (Cin(p) = 4 /\ p[2] # 240)) THEN c
  ELSE "none"

\* how many of the handler calls are SysEx deliveries
SysExCalls(cs) == Cardinality({i \in 1..Len(cs) : cs[i][1] = "handleSystemExclusiveT"})

\* the offers of a sequence that were accepted, as packets
RECURSIVE Accepted(_)
Accepted(os) ==
  IF os = << >> THEN << >>
  ELSE (IF os[1].ok THEN <<os[1].pkt>> ELSE << >>) \o Accepted(Tail(os))

(***************************************************************************)
(* SerialDevice.h: the parser of the serial byte stream.  Its calls        *)
(* midi->set(channel, status, data1, data2) have the parameters of         *)
(* Packet::set in PortPacket.cpp, which is the function modelled for them. *)
(***************************************************************************)
\* a | b on non-negative integers
RECURSIVE BitOr(_, _)
BitOr(a, b) ==
  IF a = 0 THEN b
  ELSE IF b = 0 THEN a
  ELSE 2 * BitOr(a \div 2, b \div 2) + (IF a % 2 = 1 \/ b % 2 = 1 THEN 1 ELSE 0)

\* the code index number Packet::set(channel, type, ...) of PortPacket.cpp picks for
\* type, -1 where it returns NULL
Packet_setCin(channel, type) ==
  CASE type = NoteOff -> CinNoteOff
    [] type = NoteOn -> CinNoteOn
    [] type = Aftertouch -> CinAftertouch
    [] type = ControlChange -> CinControlChange
    [] type = ProgramChange -> CinProgramChange
    [] type = AftertouchChannel -> CinAftertouchChannel
    [] type = PitchBend -> CinPitchBend
    [] type \in {SystemSongSelect, SystemTimeCodeQuarterFrame} ->
         IF channel > 0 THEN -1 ELSE CinSystemCommon2
    [] type = SystemSongPosition -> IF channel > 0 THEN -1 ELSE CinSystemCommon3
    [] type \in {SystemTuneRequest, SystemClock, SystemStart, SystemContinue,
                 SystemStop, SystemActiveSensing, SystemReset} ->
         IF channel > 0 THEN -1 ELSE CinSingleByte
    [] OTHER -> -1

\* Packet::set(channel, type, data1, data2) of PortPacket.cpp on the packet p: the
\* bytes it leaves and what it returns
Packet_set(p, channel, type, data1, data2) ==
  LET b0 == (p[1] \div 16) * 16
      cin == Packet_setCin(channel, type)
  IN IF cin = -1 THEN [data |-> <<b0, p[2], p[3], p[4]>>, ret |-> "NULL"]
     ELSE [data |-> <<b0 + cin, U8(BitOr(type, channel)), data1, data2>>,
           ret |-> "this"]

\* the real-time status bytes receive() forwards at once
SerialRealTime ==
  {SystemClock, SystemStart, SystemContinue, SystemStop, SystemActiveSensing,
   SystemReset}

\* the statuses receive() waits for a first data byte for
SerialData1 ==
  {ProgramChange, AftertouchChannel, SystemTimeCodeQuarterFrame, SystemSongSelect,
   NoteOn, NoteOff, ControlChange, PitchBend, SystemSongPosition}

\* the statuses whose message is complete with the first data byte
SerialTwoBytes ==
  {ProgramChange, AftertouchChannel, SystemTimeCodeQuarterFrame, SystemSongSelect}

\* the statuses receive() waits for a second data byte for
SerialThreeBytes ==
  {NoteOn, NoteOff, Aftertouch, ControlChange, PitchBend, SystemSongPosition}

\* receive() has returned true with the packet set(...) left in m
SerialEmit(s, m, state, r) ==
  [serial |-> [s EXCEPT !.state = state, !.statistics.input = @ + 1],
   midi |-> r.data, ret |-> TRUE]

\* receive() has returned false
SerialWait(s, m) == [serial |-> s, midi |-> m, ret |-> FALSE]

\* receive() in State::Status
receiveStatus(s, m, b) ==
  LET t == [s EXCEPT !.state = "Status", !.status = getStatus(b), !.channel = b % 16]
  IN CASE t.status = SystemTuneRequest ->
            SerialEmit(t, m, "Idle", Packet_set(m, 0, t.status, 0, 0))
       [] t.status \in SerialData1 -> SerialWait([t EXCEPT !.state = "Data1"], m)
       [] t.status = SystemExclusive -> SerialWait([t EXCEPT !.state = "SysEx"], m)
       [] OTHER -> SerialWait(t, m)

\* receive() in State::Data1
receiveData1(s, m, b) ==
  CASE s.status \in SerialTwoBytes ->
         SerialEmit(s, m, "Idle", Packet_set(m, s.channel, s.status, b, 0))
    [] s.status \in SerialThreeBytes ->
         SerialWait([s EXCEPT !.data1 = b, !.state = "Data2"], m)
    [] OTHER -> SerialWait(s, m)

\* receive() in State::Data2
receiveData2(s, m, b) ==
  SerialEmit(s, m, "Idle", Packet_set(m, s.channel, s.status, s.data1, b))

\* receive() that takes a real-time byte for the start of a message, as every other
\* status byte
receiveRestart(s, m, b) ==
  LET t == IF b >= 128 THEN [s EXCEPT !.state = "Status"] ELSE s
  IN IF b \in SerialRealTime
       THEN SerialEmit(t, m, t.state, Packet_set(m, 0, b, 0, 0))
     ELSE CASE t.state = "Status" -> receiveStatus(t, m, b)
            [] t.state = "Data1" -> receiveData1(t, m, b)
            [] t.state = "Data2" -> receiveData2(t, m, b)
            [] OTHER -> SerialWait(t, m)

\* SerialDevice::receive(midi) reading the byte b from the UART: the parser, the
\* packet and the return value
receive(s, m, b) ==
  IF b \in SerialRealTime
    THEN SerialEmit(s, m, s.state, Packet_set(m, 0, b, 0, 0))
  ELSE LET t == IF b >= 128 THEN [s EXCEPT !.state = "Status"] ELSE s
       IN CASE t.state = "Status" -> receiveStatus(t, m, b)
            [] t.state = "Data1" -> receiveData1(t, m, b)
            [] t.state = "Data2" -> receiveData2(t, m, b)
            [] OTHER -> SerialWait(t, m)

\* the parser of a SerialDevice after construction
SerialInit ==
  [state |-> "Idle", channel |-> 0, status |-> 0, data1 |-> 0,
   statistics |-> [input |-> 0, output |-> 0]]

\* receive() called once for each byte of bytes from the i-th on: the parser, the
\* packet and the packets returned, [at, data]
RECURSIVE SerialRun(_, _, _, _, _)
SerialRun(bytes, i, s, m, out) ==
  IF i > Len(bytes) THEN [serial |-> s, midi |-> m, out |-> out]
  ELSE LET r == receive(s, m, bytes[i])
       IN SerialRun(bytes, i + 1, r.serial, r.midi,
                    IF r.ret THEN Append(out, [at |-> i, data |-> r.midi]) ELSE out)

(***************************************************************************)
(* Packet.h: the encoding operations.  Each gives the bytes it leaves in   *)
(* the packet and what it returns: "this", or "abort" for std::abort().    *)
(***************************************************************************)
\* Packet::set(data0, data1, data2), the raw status byte first
setRaw(p, data0, data1, data2) ==
  LET t == getStatus(data0)
      cin == CASE t = NoteOff -> CinNoteOff
               [] t = NoteOn -> CinNoteOn
               [] t = Aftertouch -> CinAftertouch
               [] t = ControlChange -> CinControlChange
               [] t = ProgramChange -> CinProgramChange
               [] t = AftertouchChannel -> CinAftertouchChannel
               [] t = PitchBend -> CinPitchBend
               [] t \in {SystemSongSelect, SystemTimeCodeQuarterFrame} -> CinSystemCommon2
               [] t = SystemSongPosition -> CinSystemCommon3
               [] t \in {SystemTuneRequest, SystemClock, SystemStart, SystemContinue,
                         SystemStop, SystemActiveSensing, SystemReset} -> CinSingleByte
               [] OTHER -> 0
  IN [data |-> <<BitOr(p[1], cin), data0, data1, data2>>, ret |-> "this"]

\* Packet::set(type, channel, data1, data2) that leaves the channel out of the
\* status byte
setNoChannel(p, type, channel, data1, data2) ==
  LET b0 == (p[1] \div 16) * 16
  IN IF type \in {NoteOff, NoteOn, Aftertouch, ControlChange, ProgramChange,
                  AftertouchChannel, PitchBend}
       THEN [data |-> <<b0 + type \div 16, type, data1, data2>>, ret |-> "this"]
     ELSE [data |-> <<b0, p[2], p[3], p[4]>>, ret |-> "abort"]

\* Packet::set(type, channel, data1, data2)
set(p, type, channel, data1, data2) ==
  LET b0 == (p[1] \div 16) * 16
      cin == CASE type = NoteOff -> CinNoteOff
               [] type = NoteOn -> CinNoteOn
               [] type = Aftertouch -> CinAftertouch
               [] type = ControlChange -> CinControlChange
               [] type = ProgramChange -> CinProgramChange
               [] type = AftertouchChannel -> CinAftertouchChannel
               [] type = PitchBend -> CinPitchBend
               [] OTHER -> -1
  IN IF cin = -1 THEN [data |-> <<b0, p[2], p[3], p[4]>>, ret |-> "abort"]
     ELSE [data |-> <<b0 + cin, U8(BitOr(type, channel)), data1, data2>>,
           ret |-> "this"]

\* Packet::setSystem(type, data1, data2)
setSystem(p, type, data1, data2) ==
  LET b0 == (p[1] \div 16) * 16
      cin == CASE type \in {SystemSongSelect, SystemTimeCodeQuarterFrame} ->
                    CinSystemCommon2
               [] type = SystemSongPosition -> CinSystemCommon3
               [] type \in {SystemTuneRequest, SystemClock, SystemStart, SystemContinue,
                            SystemStop, SystemActiveSensing, SystemReset} ->
                    CinSingleByte
               [] OTHER -> -1
  IN IF cin = -1 THEN [data |-> <<b0, p[2], p[3], p[4]>>, ret |-> "abort"]
     ELSE [data |-> <<b0 + cin, type, data1, data2>>, ret |-> "this"]

\* Packet::setNote(channel, note, velocity)
setNote(p, channel, note, velocity) ==
  IF velocity = 0 THEN set(p, NoteOff, channel, note, 64)
  ELSE set(p, NoteOn, channel, note, velocity)

\* Packet::setNoteOff(channel, note, velocity)
setNoteOff(p, channel, note, velocity) == set(p, NoteOff, channel, note, velocity)

\* Packet::setAftertouch(channel, note, pressure)
setAftertouch(p, channel, note, pressure) == set(p, Aftertouch, channel, note, pressure)

\* Packet::setControlChange(channel, controller, value)
setControlChange(p, channel, controller, value) ==
  set(p, ControlChange, channel, controller, value)

\* Packet::setAftertouchChannel(channel, pressure)
setAftertouchChannel(p, channel, pressure) ==
  set(p, AftertouchChannel, channel, pressure, 0)

\* Packet::setProgram(channel, value)
setProgram(p, channel, value) == set(p, ProgramChange, channel, value, 0)

\* Packet::setPitchBend(channel, value): bits = uint16_t(value + 8192)
setPitchBend(p, channel, value) ==
  LET bits == (value + 8192 + 65536) % 65536
  IN set(p, PitchBend, channel, bits % 128, (bits \div 128) % 128)

\* Packet::setChannel(channel): _data[1] &= 0xf0; _data[1] |= channel
setChannel(p, channel) ==
  <<p[1], U8(BitOr((p[2] \div 16) * 16, channel)), p[3], p[4]>>

(***************************************************************************)
(* CCHighResolution.h: HighResolution<first, size>, the 14-bit controllers *)
(* first .. first+size-1 with their LSB controllers 32 above.              *)
(***************************************************************************)
\* the template arguments the controllers are instantiated with
ccFirst == 7
ccSize == 2

\* CC::ControllerLSB
ControllerLSB == 32

\* HighResolution::reset(): memset(_controllers, 0, sizeof(_controllers)), which is
\* also the state after construction
resetControllers ==
  [i \in 0..(ccSize - 1) |-> [state |-> "Init", msb |-> 0, value |-> 0]]

\* HighResolution::get(controller)
get(cs, controller) == cs[controller - ccFirst].value

\* setByte() storing v in the controller i and returning whether it changed
SetValue(cs, i, v) ==
  IF v = cs[i].value THEN [controllers |-> cs, ret |-> FALSE]
  ELSE [controllers |-> [cs EXCEPT ![i].value = v], ret |-> TRUE]

\* HighResolution::set(controller, value): stores the 14-bit value
set14(cs, controller, value) == SetValue(cs, controller - ccFirst, value)

\* setByte() that stores the deferred MSB at once, and still reports no change
setByteEager(cs, controller, value) ==
  IF controller < ControllerLSB
    THEN LET i == controller - ccFirst
             c1 == [cs EXCEPT ![i].msb = value]
         IN CASE cs[i].state = "Init" ->
                   SetValue([c1 EXCEPT ![i].state = "LowResolution"], i,
                            (value * 128) % 65536)
              [] cs[i].state = "LowResolution" -> SetValue(c1, i, (value * 128) % 65536)
              [] cs[i].state = "HighResolution" ->
                   [controllers |-> [c1 EXCEPT ![i].state = "Wait",
                                               ![i].value = (value * 128) % 65536],
                    ret |-> FALSE]
              [] cs[i].state = "Wait" ->
                   SetValue([c1 EXCEPT ![i].state = "LowResolution"], i,
                            (value * 128) % 65536)
  ELSE LET i == controller - ccFirst - ControllerLSB
       IN IF cs[i].state = "Init" THEN [controllers |-> cs, ret |-> FALSE]
          ELSE SetValue([cs EXCEPT ![i].state = "HighResolution"], i,
                        BitOr((cs[i].msb * 128) % 65536, value))

\* setByte() that waits for the LSB after the very first MSB too
setByteDefer(cs, controller, value) ==
  IF controller < ControllerLSB
    THEN LET i == controller - ccFirst
             c1 == [cs EXCEPT ![i].msb = value]
         IN CASE cs[i].state = "Init" ->
                   [controllers |-> [c1 EXCEPT ![i].state = "Wait"], ret |-> FALSE]
              [] cs[i].state = "LowResolution" -> SetValue(c1, i, (value * 128) % 65536)
              [] cs[i].state = "HighResolution" ->
                   [controllers |-> [c1 EXCEPT ![i].state = "Wait"], ret |-> FALSE]
              [] cs[i].state = "Wait" ->
                   SetValue([c1 EXCEPT ![i].state = "LowResolution"], i,
                            (value * 128) % 65536)
  ELSE LET i == controller - ccFirst - ControllerLSB
       IN IF cs[i].state = "Init" THEN [controllers |-> cs, ret |-> FALSE]
          ELSE SetValue([cs EXCEPT ![i].state = "HighResolution"], i,
                        BitOr((cs[i].msb * 128) % 65536, value))

\* setByte() that reports every MSB it does not defer as a change
setByteAlways(cs, controller, value) ==
  IF controller < ControllerLSB
    THEN LET i == controller - ccFirst
             c1 == [cs EXCEPT ![i].msb = value, ![i].value = (value * 128) % 65536]
         IN CASE cs[i].state = "Init" ->
                   [controllers |-> [c1 EXCEPT ![i].state = "LowResolution"],
                    ret |-> TRUE]
              [] cs[i].state = "LowResolution" -> [controllers |-> c1, ret |-> TRUE]
              [] cs[i].state = "HighResolution" ->
                   [controllers |-> [cs EXCEPT ![i].msb = value, ![i].state = "Wait"],
                    ret |-> FALSE]
              [] cs[i].state = "Wait" ->
                   [controllers |-> [c1 EXCEPT ![i].state = "LowResolution"],
                    ret |-> TRUE]
  ELSE LET i == controller - ccFirst - ControllerLSB
       IN IF cs[i].state = "Init" THEN [controllers |-> cs, ret |-> FALSE]
          ELSE SetValue([cs EXCEPT ![i].state = "HighResolution"], i,
                        BitOr((cs[i].msb * 128) % 65536, value))

\* setByte() that keeps waiting for the LSB when a second MSB arrives
setByteWaiting(cs, controller, value) ==
  IF controller < ControllerLSB
    THEN LET i == controller - ccFirst
             c1 == [cs EXCEPT ![i].msb = value]
         IN CASE cs[i].state = "Init" ->
                   SetValue([c1 EXCEPT ![i].state = "LowResolution"], i,
                            (value * 128) % 65536)
              [] cs[i].state = "LowResolution" -> SetValue(c1, i, (value * 128) % 65536)
              [] cs[i].state = "HighResolution" ->
                   [controllers |-> [c1 EXCEPT ![i].state = "Wait"], ret |-> FALSE]
              [] cs[i].state = "Wait" -> [controllers |-> c1, ret |-> FALSE]
  ELSE LET i == controller - ccFirst - ControllerLSB
       IN IF cs[i].state = "Init" THEN [controllers |-> cs, ret |-> FALSE]
          ELSE SetValue([cs EXCEPT ![i].state = "HighResolution"], i,
                        BitOr((cs[i].msb * 128) % 65536, value))

\* HighResolution::setByte(controller, value): the controllers and whether the
\* 14-bit value has changed
setByte(cs, controller, value) ==
  IF controller < ControllerLSB
    THEN LET i == controller - ccFirst
             c1 == [cs EXCEPT ![i].msb = value]
         IN CASE cs[i].state = "Init" ->
                   SetValue([c1 EXCEPT ![i].state = "LowResolution"], i,
                            (value * 128) % 65536)
              [] cs[i].state = "LowResolution" -> SetValue(c1, i, (value * 128) % 65536)
              [] cs[i].state = "HighResolution" ->
                   [controllers |-> [c1 EXCEPT ![i].state = "Wait"], ret |-> FALSE]
              [] cs[i].state = "Wait" ->
                   SetValue([c1 EXCEPT ![i].state = "LowResolution"], i,
                            (value * 128) % 65536)
  ELSE LET i == controller - ccFirst - ControllerLSB
       IN IF cs[i].state = "Init" THEN [controllers |-> cs, ret |-> FALSE]
          ELSE SetValue([cs EXCEPT ![i].state = "HighResolution"], i,
                        BitOr((cs[i].msb * 128) % 65536, value))

(***************************************************************************)
(* Clock.h: the MIDI clock.                                                *)
(***************************************************************************)
\* Clock::reset()
resetClock == [run |-> FALSE, tick |-> 0]

\* Clock::setBeat(beat)
setBeat(c, beat) == [c EXCEPT !.tick = beat * 6]

\* update() that counts the tick before it looks for the quarter note
updateAfter(c, event) ==
  CASE event = "Tick" ->
         IF ~c.run THEN [clock |-> c, quarters |-> << >>]
         ELSE [clock |-> [c EXCEPT !.tick = c.tick + 1],
               quarters |-> IF (c.tick + 1) % 24 = 0 THEN <<(c.tick + 1) \div 24>>
                            ELSE << >>]
    [] event = "Start" -> [clock |-> [run |-> TRUE, tick |-> 0], quarters |-> << >>]
    [] event = "Continue" -> [clock |-> [c EXCEPT !.run = TRUE], quarters |-> << >>]
    [] event = "Stop" -> [clock |-> [c EXCEPT !.run = FALSE], quarters |-> << >>]

\* update() that takes Continue for Start
updateRestart(c, event) ==
  CASE event = "Tick" ->
         IF ~c.run THEN [clock |-> c, quarters |-> << >>]
         ELSE [clock |-> [c EXCEPT !.tick = c.tick + 1],
               quarters |-> IF c.tick % 24 = 0 THEN <<c.tick \div 24>> ELSE << >>]
    [] event = "Start" -> [clock |-> [run |-> TRUE, tick |-> 0], quarters |-> << >>]
    [] event = "Continue" -> [clock |-> [run |-> TRUE, tick |-> 0], quarters |-> << >>]
    [] event = "Stop" -> [clock |-> [c EXCEPT !.run = FALSE], quarters |-> << >>]

\* Clock::update(clock): the Clock and the handleQuarter() calls made
update(c, event) ==
  CASE event = "Tick" ->
         IF ~c.run THEN [clock |-> c, quarters |-> << >>]
         ELSE [clock |-> [c EXCEPT !.tick = c.tick + 1],
               quarters |-> IF c.tick % 24 = 0 THEN <<c.tick \div 24>> ELSE << >>]
    [] event = "Start" -> [clock |-> [run |-> TRUE, tick |-> 0], quarters |-> << >>]
    [] event = "Continue" -> [clock |-> [c EXCEPT !.run = TRUE], quarters |-> << >>]
    [] event = "Stop" -> [clock |-> [c EXCEPT !.run = FALSE], quarters |-> << >>]

(***************************************************************************)
(* File.h: the Standard MIDI File.  The file is the sequence of its bytes, *)
(* a pointer into it is the offset of the byte.  The inputs are chosen so  *)
(* that no read goes beyond the last byte; ByteAt gives 0 there.           *)
(***************************************************************************)
\* data[i]
ByteAt(data, i) == IF i < Len(data) THEN data[i + 1] ELSE 0

\* number <<= 7 of a uint32_t
Shl7(number) == (number % 33554432) * 128

\* the loop of Track::readNumber()
RECURSIVE ReadNumberLoop(_, _, _)
ReadNumberLoop(data, cursor, number) ==
  LET b == ByteAt(data, cursor)
      n == BitOr(number, b % 128)
  IN IF b < 128 THEN [number |-> n, cursor |-> cursor + 1]
     ELSE ReadNumberLoop(data, cursor + 1, Shl7(n))

\* readNumber() that adds the continuation bytes up without shifting
ReadNumberFlat(data, cursor) ==
  LET RECURSIVE Flat(_, _)
      Flat(c, number) ==
        LET b == ByteAt(data, c)
        IN IF b < 128 THEN [number |-> number + b, cursor |-> c + 1]
           ELSE Flat(c + 1, number + (b % 128))
  IN Flat(cursor, 0)

\* Track::readNumber(cursor) on the bytes data points to: the number and the cursor
\* it leaves
readNumber(data, cursor) == ReadNumberLoop(data, cursor, 0)

\* Event::Meta
MetaEndOfTrack == 47
MetaTempo == 81

\* an Event whose bytes are all 0, as _play.tracks[i] = {} leaves it.  metaType,
\* sysExType and status share the first byte of a union: status stands for the three
NoEvent ==
  [delta |-> 0, type |-> "None", status |-> 0, channel |-> 0, data |-> 0, length |-> 0]

\* the length the switch over e.status in readEvent() sets, -1 where it has no case
\* and leaves e.length as it is
MessageLength(status) ==
  CASE status \in {NoteOn, NoteOff, Aftertouch, ControlChange, PitchBend,
                   SystemSongPosition} -> 2
    [] status \in {ProgramChange, AftertouchChannel, SystemTimeCodeQuarterFrame,
                   SystemSongSelect} -> 1
    [] status \in {SystemTuneRequest, SystemClock, SystemStart, SystemContinue,
                   SystemStop, SystemActiveSensing, SystemReset} -> 0
    [] OTHER -> -1

\* readEvent(), case 0xff: the meta event of the type m whose length l, read as a
\* variable-length number, follows the type
ReadMeta(t, e, delta, m, l) ==
  [ok |-> m # MetaEndOfTrack,
   e |-> [delta |-> delta, type |-> IF m = MetaEndOfTrack THEN "None" ELSE "Meta",
          status |-> m, channel |-> e.channel, data |-> l.cursor,
          length |-> l.number],
   cursor |-> l.cursor - t.data + l.number,
   running |-> t.running]

\* readEvent(), cases 0xf0 and 0xf7: the SysEx event b whose length l follows it
ReadSysEx(t, e, delta, b, l) ==
  [ok |-> TRUE,
   e |-> [delta |-> delta, type |-> "SysEx", status |-> b, channel |-> e.channel,
          data |-> l.cursor, length |-> l.number],
   cursor |-> l.cursor - t.data + l.number,
   running |-> t.running]

\* readEvent(), default case: the status and channel in force after the byte b, a
\* status byte being latched as the running status
RunningStatus(t, b) ==
  IF b < 128 THEN t.running
  ELSE IF (b \div 16) * 16 # System
    THEN [status |-> (b \div 16) * 16, channel |-> b % 16]
  ELSE [status |-> b, channel |-> 0]

\* readEvent(), default case: the message with the data bytes at the offset c1 of the
\* track, length being what the switch over e.status gives
ReadMessage(t, e, delta, c1, running, length) ==
  [ok |-> TRUE,
   e |-> [delta |-> delta, type |-> "Message", status |-> running.status,
          channel |-> running.channel, data |-> t.data + c1,
          length |-> IF length = -1 THEN e.length ELSE length],
   cursor |-> c1 + (IF length = -1 THEN e.length ELSE length),
   running |-> running]

\* readEvent() after the delta: the switch over the byte b at the offset c of the track
ReadEventByte(file, t, e, delta, c, b) ==
  CASE b = 255 ->
         ReadMeta(t, e, delta, ByteAt(file, t.data + c + 1),
                  readNumber(file, t.data + c + 2))
    [] b \in {240, 247} ->
         ReadSysEx(t, e, delta, b, readNumber(file, t.data + c + 1))
    [] OTHER ->
         ReadMessage(t, e, delta, IF b < 128 THEN c ELSE c + 1, RunningStatus(t, b),
                     MessageLength(RunningStatus(t, b).status))

\* Track::readEvent(e, cursor) of the track t = [data, length, running] in the file:
\* what it returns, the event, the cursor and the running status it leaves
readEvent(file, t, e, cursor) ==
  IF cursor >= t.length
    THEN [ok |-> FALSE, e |-> [e EXCEPT !.type = "None"], cursor |-> cursor,
          running |-> t.running]
  ELSE ReadEventByte(file, t, e, readNumber(file, t.data + cursor).number,
                     readNumber(file, t.data + cursor).cursor - t.data,
                     ByteAt(file, readNumber(file, t.data + cursor).cursor))

\* Tracks::_maxTracks
maxTracks == 16

\* _play.tick and _play.tracks[i].tick are floats: the model counts them in units of
\* 1 / TickUnit tick, and _play.tickDurationUsec, the float usec / division, is kept
\* as the pair [usec, division].  The durations and the times between two run()
\* calls are chosen so that every float the code computes is a multiple of
\* 1 / TickUnit below 2^24, which a float holds exactly.
TickUnit == 2

\* the Tracks object after construction without data
NoTracks ==
  [state |-> "Empty", data |-> << >>,
   header |-> [version |-> 0, nTracks |-> 0, division |-> 0],
   tracks |-> [i \in 0..(maxTracks - 1) |->
                 [data |-> 0, length |-> 0,
                  running |-> [status |-> 0, channel |-> 0]]],
   play |-> [tickDurationUsec |-> [usec |-> 0, division |-> 1], tick |-> 0,
             tracks |-> [i \in 0..(maxTracks - 1) |->
                           [cursor |-> 0, tick |-> 0, event |-> NoEvent,
                            end |-> FALSE]]]]

\* Tracks::readSignature(signature, cursor)
readSignature(data, signature, cursor) ==
  \A i \in 0..3 : ByteAt(data, cursor + i) = signature[i + 1]

\* Tracks::readBE32(cursor); the first byte stays below 0x80 in the files here
readBE32(data, cursor) ==
  ((ByteAt(data, cursor) * 256 + ByteAt(data, cursor + 1)) * 256
     + ByteAt(data, cursor + 2)) * 256 + ByteAt(data, cursor + 3)

\* Tracks::readBE16(cursor)
readBE16(data, cursor) == ByteAt(data, cursor) * 256 + ByteAt(data, cursor + 1)

\* the loop of load() over the track chunks, from the track i with the cursor
RECURSIVE LoadTracks(_, _, _)
LoadTracks(f, i, cursor) ==
  IF i >= f.header.nTracks
    THEN [tracks |-> [f EXCEPT !.state = "Loaded"], ret |-> TRUE,
          reported |-> <<"Loaded">>]
  ELSE IF ~readSignature(f.data, <<77, 84, 114, 107>>, cursor)
    THEN [tracks |-> f, ret |-> FALSE, reported |-> << >>]
  ELSE LET length == readBE32(f.data, cursor + 4)
       IN IF length < 2 THEN [tracks |-> f, ret |-> FALSE, reported |-> << >>]
          ELSE LoadTracks([f EXCEPT !.tracks[i].data = cursor + 8,
                                    !.tracks[i].length = length],
                          i + 1, cursor + 8 + length)

\* load() that leaves the state as it is until the file is parsed
loadKeep(f, data) ==
  IF data = << >>
    THEN [tracks |-> [f EXCEPT !.state = "Empty"], ret |-> FALSE,
          reported |-> IF f.state # "Empty" THEN <<"Empty">> ELSE << >>]
  ELSE
    LET f0 == [f EXCEPT !.data = data]
        f1 == [f0 EXCEPT !.header.version = readBE16(data, 8)]
        f2 == [f1 EXCEPT !.header.nTracks = readBE16(data, 10)]
        f3 == [f2 EXCEPT !.header.division = readBE16(data, 12)]
        failed(g) == [tracks |-> g, ret |-> FALSE, reported |-> << >>]
    IN CASE ~readSignature(data, <<77, 84, 104, 100>>, 0) -> failed(f0)
         [] readBE32(data, 4) # 6 -> failed(f0)
         [] f1.header.version > 1 -> failed(f1)
         [] f2.header.nTracks > maxTracks -> failed(f2)
         [] f3.header.division >= 32768 -> failed(f3)
         [] OTHER -> LoadTracks(f3, 0, 14)

\* Tracks::load(data), << >> being NULL: the object, what it returns and the states
\* it reports with handleStateChange()
load(f, data) ==
  IF data = << >>
    THEN [tracks |-> [f EXCEPT !.state = "Empty"], ret |-> FALSE,
          reported |-> IF f.state # "Empty" THEN <<"Empty">> ELSE << >>]
  ELSE
    LET f0 == [f EXCEPT !.state = "Empty", !.data = data]
        f1 == [f0 EXCEPT !.header.version = readBE16(data, 8)]
        f2 == [f1 EXCEPT !.header.nTracks = readBE16(data, 10)]
        f3 == [f2 EXCEPT !.header.division = readBE16(data, 12)]
        failed(g) == [tracks |-> g, ret |-> FALSE, reported |-> << >>]
    IN CASE ~readSignature(data, <<77, 84, 104, 100>>, 0) -> failed(f0)
         [] readBE32(data, 4) # 6 -> failed(f0)
         [] f1.header.version > 1 -> failed(f1)
         [] f2.header.nTracks > maxTracks -> failed(f2)
         [] f3.header.division >= 32768 -> failed(f3)
         [] OTHER -> LoadTracks(f3, 0, 14)

\* Tracks::getFormat(), getTrackCount()
getFormat(f) == IF f.state = "Empty" THEN -1 ELSE f.header.version
getTrackCount(f) == IF f.state = "Empty" THEN -1 ELSE f.header.nTracks

\* Tracks::getTrack(track): the index of the track it points to, -1 for NULL
getTrack(f, track) ==
  IF f.state = "Empty" \/ track >= f.header.nTracks THEN -1 ELSE track

\* Tracks::setTempoUsec(usec)
setTempoUsec(f, usec) ==
  [f EXCEPT !.play.tickDurationUsec = [usec |-> usec, division |-> f.header.division]]

\* Tracks::play()
play(f) ==
  IF f.state = "Empty" THEN [tracks |-> f, ret |-> FALSE, reported |-> << >>]
  ELSE LET f1 == [f EXCEPT !.play.tracks =
                    [i \in 0..(maxTracks - 1) |->
                       IF i < f.header.nTracks
                         THEN [cursor |-> 0, tick |-> 0, event |-> NoEvent,
                               end |-> FALSE]
                       ELSE f.play.tracks[i]]]
           f2 == setTempoUsec(f1, 60000000 \div 120)
       IN [tracks |-> [f2 EXCEPT !.play.tick = 0, !.state = "Play"], ret |-> TRUE,
           reported |-> <<"Play">>]

\* Tracks::stop()
stop(f) ==
  IF f.state # "Play" THEN [tracks |-> f, reported |-> << >>]
  ELSE [tracks |-> [f EXCEPT !.state = "Stop"], reported |-> <<"Stop">>]

\* the packet run() hands to handleSend() for the message e, << >> if none:
\* Packet::set(channel, status, data1, data2) of PortPacket.cpp on a new Packet
SendOf(f, i, e) ==
  IF e.type = "Message" /\ e.status \in {NoteOn, NoteOff, Aftertouch, ControlChange,
                                         PitchBend}
    THEN <<[track |-> i,
            packet |-> Packet_set(<<0, 0, 0, 0>>, e.channel, e.status,
                                  ByteAt(f.data, e.data),
                                  ByteAt(f.data, e.data + 1)).data]>>
  ELSE IF e.type = "Message" /\ e.status \in {ProgramChange, AftertouchChannel}
    THEN <<[track |-> i,
            packet |-> Packet_set(<<0, 0, 0, 0>>, e.channel, e.status,
                                  ByteAt(f.data, e.data), 0).data]>>
  ELSE << >>

\* the event r that readEvent() returned, stored in _play.tracks[i]
EventRead(f, i, r) ==
  [f EXCEPT !.tracks[i].running = r.running,
            !.play.tracks[i].event = r.e,
            !.play.tracks[i].cursor = r.cursor]

\* _play.tracks[i].event.type = Event::Type::None
EventDone(f, i) == [f EXCEPT !.play.tracks[i].event.type = "None"]

\* the tempo of a Tempo meta event: the three bytes at e.data, big-endian
TempoOf(f, e) ==
  (ByteAt(f.data, e.data) * 256 + ByteAt(f.data, e.data + 1)) * 256
    + ByteAt(f.data, e.data + 2)

\* the for (;;) loop of run() for the track i: the object and the handleSend() calls.
\* RunEvents is one turn of the loop, RunRead the turn after readEvent() returned r,
\* RunEvent the handling of the event e that is due
RECURSIVE RunEvents(_, _, _)
\* RunEvent with a fault: the Tempo event of any track sets the tempo
RunEventAnyTrack(f, i, sends, e) ==
  IF e.type = "Meta" /\ e.status = MetaTempo
    THEN RunEvents(setTempoUsec(EventDone(f, i), TempoOf(f, e)), i, sends)
  ELSE RunEvents(EventDone(f, i), i, sends \o SendOf(f, i, e))

RunEvent(f, i, sends, e) ==
  IF i = 0 /\ e.type = "Meta" /\ e.status = MetaTempo
    THEN RunEvents(setTempoUsec(EventDone(f, i), TempoOf(f, e)), i, sends)
  ELSE RunEvents(EventDone(f, i), i, sends \o SendOf(f, i, e))

RunRead(f, i, sends, r) ==
  IF ~r.ok
    THEN [tracks |-> [EventRead(f, i, r) EXCEPT !.play.tracks[i].end = TRUE],
          sends |-> sends]
  ELSE IF r.e.delta > 0
    THEN [tracks |-> [EventRead(f, i, r) EXCEPT
                        !.play.tracks[i].tick = @ + r.e.delta * TickUnit],
          sends |-> sends]
  ELSE RunEvent(EventRead(f, i, r), i, sends, r.e)

RunEvents(f, i, sends) ==
  IF f.play.tracks[i].event.type = "None"
    THEN RunRead(f, i, sends,
                 readEvent(f.data, f.tracks[i], f.play.tracks[i].event,
                           f.play.tracks[i].cursor))
  ELSE RunEvent(f, i, sends, f.play.tracks[i].event)

\* the loop of run() over the tracks, from the track i; RunTrack goes on after the
\* events r of the track i
RECURSIVE RunTracks(_, _, _)
RunTrack(r, i, sends) == RunTracks(r.tracks, i + 1, sends \o r.sends)

RunTracks(f, i, sends) ==
  IF i >= f.header.nTracks THEN [tracks |-> f, sends |-> sends]
  ELSE IF f.play.tracks[i].end \/ f.play.tick < f.play.tracks[i].tick
    THEN RunTracks(f, i + 1, sends)
  ELSE RunTrack(RunEvents(f, i, << >>), i, sends)

\* _play.tick += passedUsec / _play.tickDurationUsec
TickPassed(f, passedUsec) ==
  [f EXCEPT !.play.tick =
     @ + (passedUsec * f.play.tickDurationUsec.division * TickUnit)
           \div f.play.tickDurationUsec.usec]

\* the end of run(): stop() once no track was playing when its turn came, r being what
\* the loop over the tracks left
RunEnd(f, r) ==
  IF \E i \in 0..(f.header.nTracks - 1) : ~f.play.tracks[i].end
    THEN [tracks |-> r.tracks, sends |-> r.sends, reported |-> << >>]
  ELSE [tracks |-> [r.tracks EXCEPT !.state = "Stop"], sends |-> r.sends,
        reported |-> <<"Stop">>]

\* Tracks::run(), passedUsec after the last run() or play(): the object, the
\* handleSend() calls and the states reported
run(f, passedUsec) ==
  IF f.state # "Play" THEN [tracks |-> f, sends |-> << >>, reported |-> << >>]
  ELSE RunEnd(f, RunTracks(TickPassed(f, passedUsec), 0, << >>))

\* the loop of Track::copyTag(meta, text, size) from the cursor, the Event of every
\* turn being a new object of which length is left as it was made, as length says:
\* what it returns and the running status it leaves.  CopyTagEvent is the turn after
\* readEvent() returned r
RECURSIVE CopyTagLoop(_, _, _, _, _, _)
CopyTagEvent(file, t, r, meta, size, length) ==
  IF ~r.ok THEN [ret |-> 0, running |-> r.running]
  ELSE IF r.e.type # "Meta" \/ r.e.status # meta
    THEN CopyTagLoop(file, [t EXCEPT !.running = r.running], r.cursor, meta, size,
                     length)
  ELSE IF r.e.length + 1 > size THEN [ret |-> -1, running |-> r.running]
  ELSE [ret |-> r.e.length, running |-> r.running]

CopyTagLoop(file, t, cursor, meta, size, length) ==
  CopyTagEvent(file, t, readEvent(file, t, [NoEvent EXCEPT !.length = length], cursor),
               meta, size, length)

\* Tracks::copyTag(meta, text, size): the object and what it returns
CopyTagged(f, r) ==
  [tracks |-> [f EXCEPT !.tracks[0].running = r.running], ret |-> r.ret]

copyTag(f, meta, size, length) ==
  IF f.state = "Empty" THEN [tracks |-> f, ret |-> -1]
  ELSE CopyTagged(f, CopyTagLoop(f.data, f.tracks[0], 0, meta, size, length))

\* the bytes of the variable-length quantity with the 7-bit groups bits, the most
\* significant first: bit 7 is set on every byte but the last
Encode(bits) ==
  [i \in 1..Len(bits) |-> IF i < Len(bits) THEN 128 + bits[i] ELSE bits[i]]

\* a quantity that starts at the offset at of its buffer and is followed by another
\* byte, before readNumber() is called on it
Quantity(bits, at) ==
  [bits |-> bits, data |-> [i \in 1..at |-> 255] \o Encode(bits) \o <<129>>,
   at |-> at, read |-> FALSE, number |-> 0, cursor |-> at]

(***************************************************************************)
(* The state machine.                                                      *)
(***************************************************************************)
Init ==
  /\ index \in PortIndexes
  /\ sysexSize \in 0..MaxSysexSize
  /\ sysex = [in |-> [buffer |-> << >>, length |-> 0, appending |-> FALSE],
              out |-> [transport |-> "NULL", buffer |-> << >>, length |-> 0,
                       position |-> 0]]
  /\ statistics = [input |-> Counter, output |-> Counter]
  /\ op = "begin"
  /\ pkt = << >>
  /\ ret = 0
  /\ calls = << >>
  /\ offers = << >>
  /\ wire = << >>
  /\ fed = << >>
  /\ fedSt = "fresh"
  /\ fedCalls = 0
  /\ cut = "none"
  /\ tx = "idle"
  /\ serial = SerialInit
  /\ midi = <<0, 0, 0, 0>>
  /\ rxBytes = << >>
  /\ rxOut = << >>
  /\ packet = <<0, 0, 0, 0>>
  /\ enc = [n |-> 0, call |-> <<"Packet">>, ret |-> "new", before |-> <<0, 0, 0, 0>>, cin |-> -1, port |-> 0]
  /\ controllers = resetControllers
  /\ ccLog = [reset |-> FALSE, calls |-> << >>]
  /\ clock = [run |-> FALSE, tick |-> 0]
  /\ quarters = [event |-> "none", beats |-> << >>]
  /\ song = NoSong
  /\ tracks = NoTracks
  /\ played = [n |-> 0, ok |-> FALSE, tag |-> 0, reported |-> << >>, sends |-> << >>,
               state |-> "none", stops |-> 0, passed |-> 0]
  /\ vlq = Quantity(<<0>>, 0)

\* dispatch(transport, packet)
Dispatch(transport, p) ==
  /\ statistics.input.packet < MaxDispatch
  /\ LET r == dispatch(sysex.in, statistics.input, sysexSize, transport, p)
         g == FedStep(fedSt, fed, p)
     IN /\ sysex' = [sysex EXCEPT !.in = r.in]
        /\ statistics' = [statistics EXCEPT !.input = r.input]
        /\ calls' = r.calls
        /\ fed' = g.fed
        /\ fedSt' = g.st
        /\ fedCalls' = fedCalls + SysExCalls(r.calls)
        /\ cut' = CutStep(cut, sysex.in, sysexSize, p)
  /\ op' = "dispatch"
  /\ pkt' = p
  /\ ret' = 0
  /\ offers' = << >>
  /\ UNCHANGED <<index, sysexSize, wire, tx>>
  /\ UNCHANGED <<serialVars, packetVars, ccVars, clockVars, fileVars>>

\* send(packet)
Send(p, ok) ==
  /\ statistics.output.packet < MaxWire
  /\ LET r == send(sysex.out, statistics.output, index, p, ok)
     IN /\ statistics' = [statistics EXCEPT !.output = r.output]
        /\ ret' = r.ret
        /\ offers' = r.offers
        /\ tx' = IF r.ret /\ tx # "active" THEN "idle" ELSE tx
        /\ wire' = IF tx = "active" THEN wire \o Accepted(r.offers)
                   ELSE IF r.ret THEN << >> ELSE wire
  /\ op' = "send"
  /\ pkt' = p
  /\ calls' = << >>
  /\ UNCHANGED <<index, sysexSize, sysex, fed, fedSt, fedCalls, cut>>
  /\ UNCHANGED <<serialVars, packetVars, ccVars, clockVars, fileVars>>

\* sendSystemExclusive(transport, length) on a buffer filled with msg
SendSystemExclusive(transport, msg, n) ==
  /\ statistics.output.packet < MaxWire
  /\ n <= MaxWire - statistics.output.packet
  \* a client does not overwrite the buffer of a pending transmission with a message
  \* that sendSystemExclusive() then rejects
  /\ sysex.out.length > 0 => WellFormed(msg)
  /\ LET r == sendSystemExclusive(sysex.out, statistics.output, index, transport, msg, n)
         started == WellFormed(msg)
     IN /\ sysex' = [sysex EXCEPT !.out = r.out]
        /\ statistics' = [statistics EXCEPT !.output = r.output]
        /\ offers' = r.offers
        /\ tx' = IF started THEN (IF r.out.length > 0 THEN "active" ELSE "done")
                 ELSE IF tx = "done" THEN "idle" ELSE tx
        /\ wire' = IF started THEN Accepted(r.offers)
                   ELSE IF tx = "done" THEN << >> ELSE wire
  /\ op' = "sendSystemExclusive"
  /\ pkt' = << >>
  /\ ret' = 0
  /\ calls' = << >>
  /\ UNCHANGED <<index, sysexSize, fed, fedSt, fedCalls, cut>>
  /\ UNCHANGED <<serialVars, packetVars, ccVars, clockVars, fileVars>>

\* loopSystemExclusive()
LoopSystemExclusive(ok) ==
  /\ statistics.output.packet < MaxWire
  /\ LET r == loopSystemExclusive(sysex.out, statistics.output, index, ok)
     IN /\ sysex' = [sysex EXCEPT !.out = r.out]
        /\ statistics' = [statistics EXCEPT !.output = r.output]
        /\ ret' = r.ret
        /\ offers' = r.offers
        /\ wire' = IF tx = "active" THEN wire \o Accepted(r.offers) ELSE wire
        /\ tx' = IF tx = "active" /\ r.out.length = 0 THEN "done" ELSE tx
  /\ op' = "loopSystemExclusive"
  /\ pkt' = << >>
  /\ calls' = << >>
  /\ UNCHANGED <<index, sysexSize, fed, fedSt, fedCalls, cut>>
  /\ UNCHANGED <<serialVars, packetVars, ccVars, clockVars, fileVars>>

\* resetSystemExclusive()
ResetSystemExclusive ==
  /\ sysex' = resetSystemExclusive(sysex)
  /\ op' = "resetSystemExclusive"
  /\ pkt' = << >>
  /\ ret' = 0
  /\ calls' = << >>
  /\ offers' = << >>
  /\ fed' = << >>
  /\ fedSt' = "fresh"
  /\ fedCalls' = 0
  /\ cut' = IF sysex.in.appending THEN "reset" ELSE "none"
  /\ tx' = IF sysex.out.length > 0 THEN "aborted" ELSE tx
  /\ wire' = IF sysex.out.length > 0 THEN << >> ELSE wire
  /\ UNCHANGED <<index, sysexSize, statistics>>
  /\ UNCHANGED <<serialVars, packetVars, ccVars, clockVars, fileVars>>

DispatchFrom(F) == \E transport \in Transports, p \in F : Dispatch(transport, p)
SendFrom(P) == \E p \in P, ok \in BOOLEAN : Send(p, ok)
SendSystemExclusiveFrom(T, M, N) ==
  \E transport \in T, msg \in M, n \in N : SendSystemExclusive(transport, msg, n)
LoopSystemExclusiveAny == \E ok \in BOOLEAN : LoopSystemExclusive(ok)

\* the inbound side alone
NextIn == DispatchFrom(Frames) \/ ResetSystemExclusive
SpecIn == Init /\ [][NextIn]_vars

\* the inbound side fed with the frames of complete messages and of SysEx streams, of
\* a Port with the largest buffer
InitDispatch == Init /\ sysexSize = MaxSysexSize
NextDispatch == DispatchFrom(MessageFrames \cup StreamFrames)
SpecDispatch == InitDispatch /\ [][NextDispatch]_vars

\* the outbound side alone, of a Port with the largest buffers
InitOut == Init /\ sysexSize = MaxSysexSize
NextOut ==
  \/ SendFrom(SendPackets)
  \/ SendSystemExclusiveFrom(Transports \cup {"NULL"}, OutMessages(sysexSize), 0..MaxWire)
  \/ LoopSystemExclusiveAny
  \/ ResetSystemExclusive
SpecOut == InitOut /\ [][NextOut]_vars

\* send() with a packet of every kind that has a counter, SongPosition, Start and a
\* packet with the SysEx status, each on the cable 3, beside a SysEx transmission
\* that a refusing transport leaves pending
OutPackets ==
  {<<48 + p[1], p[2], p[3], p[4]>> :
     p \in {m \in MessageFrames :
              m[2] \notin {SystemSongSelect, SystemTimeCodeQuarterFrame,
                           SystemContinue, SystemStop, SystemActiveSensing}}}
    \cup {<<48 + CinSystemCommon3, SystemExclusive, 1, 2>>}
NextSend ==
  \/ SendFrom(OutPackets)
  \/ SendSystemExclusiveFrom(Transports, {OutMessage(5)}, {0})
  \/ LoopSystemExclusiveAny
SpecSend == InitOut /\ [][NextSend]_vars

\* one transmission on a Port that has sent nothing yet: sendSystemExclusive() with a
\* transport that accepts up to two frames at once, then loopSystemExclusive() calls
\* that are refused or accepted, while inbound frames are dispatched.
\* The caller keeps calling loopSystemExclusive() and the transport does not refuse
\* for ever: the call with an accepting transport is taken again and again
StartSystemExclusive ==
  /\ tx = "idle"
  /\ statistics.output.packet = 0
  /\ SendSystemExclusiveFrom(Transports \cup {"NULL"},
                             {OutMessage(n) : n \in 2..MaxSysexSize}, 0..2)
NextPump ==
  \/ StartSystemExclusive
  \/ LoopSystemExclusiveAny
  \/ DispatchFrom({<<4, 240, 2, 3>>, <<9, 144, 2, 3>>})
SpecPump == InitOut /\ [][NextPump]_vars /\ WF_vars(LoopSystemExclusive(TRUE))

\* the whole Port, both sides interleaved, with fewer inputs: one frame of each kind
\* (SysEx start, continuation, the three ends, clock, NoteOn, reserved), one short and
\* one long message and a rejected one, a transport that refuses at once or accepts
\* every frame
PortFrames ==
  {<<4, 240, 2, 3>>, <<4, 1, 2, 3>>, <<5, 247, 0, 0>>, <<6, 1, 247, 0>>,
   <<7, 240, 2, 247>>, <<15, 248, 2, 3>>, <<9, 144, 2, 3>>, <<0, 1, 2, 3>>}
PortMessages == {m \in {OutMessage(2), OutMessage(5), << >>} : Len(m) <= sysexSize}
PortPackets == {<<16 + 9, NoteOn + 2, 60, 100>>}
Budget == statistics.input.packet + statistics.output.packet < MaxCalls
Next ==
  \/ Budget /\ DispatchFrom(PortFrames)
  \/ Budget /\ SendFrom(PortPackets)
  \/ Budget /\ SendSystemExclusiveFrom(Transports, PortMessages, {0, MaxWire})
  \/ Budget /\ LoopSystemExclusiveAny
  \/ ResetSystemExclusive
Spec == Init /\ [][Next]_vars

\* the other objects alone, beside a Port without buffers that is never called
InitAlone == Init /\ sysexSize = 0

(***************************************************************************)
(* The serial parser as a state machine.                                   *)
(***************************************************************************)
\* the bytes the UART delivers
SerialBytes == {146, 60, 127, 64, 80, SystemClock, 162, 194, SystemExclusive}

\* receive(midi) with the byte b waiting in the UART
Receive(b) ==
  /\ Len(rxBytes) < MaxSerial
  /\ LET r == receive(serial, midi, b)
     IN /\ serial' = r.serial
        /\ midi' = r.midi
        /\ ret' = r.ret
        /\ rxOut' = IF r.ret
                      THEN Append(rxOut, [at |-> Len(rxBytes) + 1, data |-> r.midi])
                    ELSE rxOut
  /\ rxBytes' = Append(rxBytes, b)
  /\ op' = "receive"
  /\ UNCHANGED <<portVars, packetVars, ccVars, clockVars, fileVars>>

\* receive(midi) with no byte waiting: _uart->available() == 0
ReceiveNothing ==
  /\ op' = "receive"
  /\ ret' = FALSE
  /\ UNCHANGED <<portVars, serialVars, packetVars, ccVars, clockVars, fileVars>>

ReceiveFrom(B) == \E b \in B : Receive(b)

NextSerial == ReceiveFrom(SerialBytes) \/ ReceiveNothing
SpecSerial == InitAlone /\ [][NextSerial]_vars

\* the bytes of System Common messages and of a NoteOn
CommonBytes ==
  {SystemTimeCodeQuarterFrame, SystemSongPosition, SystemSongSelect,
   SystemTuneRequest, 144, 5, 127}

NextCommon == ReceiveFrom(CommonBytes) \/ ReceiveNothing
SpecCommon == InitAlone /\ [][NextCommon]_vars

(***************************************************************************)
(* The Packet object as a state machine: the encoding operations, called   *)
(* until one aborts the program.                                           *)
(***************************************************************************)
\* the code index number that goes with a status: NoteOff 8 .. PitchBend 14, the
\* system common messages 2 and 3 by their length, the single-byte ones 15, and -1
\* for a status that has none
StatusCin(t) ==
  IF t >= 128 /\ t < 240 THEN t \div 16
  ELSE IF t \in {SystemTimeCodeQuarterFrame, SystemSongSelect} THEN 2
  ELSE IF t = SystemSongPosition THEN 3
  ELSE IF t \in {SystemTuneRequest, SystemClock, SystemStart, SystemContinue,
                 SystemStop, SystemActiveSensing, SystemReset} THEN 15
  ELSE -1

\* the arguments the encoding operations are called with
PacketTypes == {NoteOff, NoteOn, Aftertouch, ControlChange, ProgramChange,
                AftertouchChannel, PitchBend, SystemClock, SystemExclusive}
PacketSystemTypes == {SystemSongSelect, SystemSongPosition, SystemClock,
                      SystemExclusive}
PacketRawBytes == {146, 128 + 5, SystemSongPosition, SystemClock, SystemExclusive, 60}
PacketChannels == {0, 5, 16}
PacketData == {<<60, 0>>, <<127, 100>>}
PacketPorts == {3, 15}
PacketBends == {-8192, -1, 8191}

\* an encoding operation has been called: call names it with its arguments, r is
\* what it gave, t the status it encodes
Encoded(call, r, t) ==
  /\ enc.ret # "abort"
  /\ enc.n < MaxEncode
  /\ packet' = r.data
  /\ op' = call[1]
  /\ enc' = [enc EXCEPT !.n = @ + 1, !.call = call, !.ret = r.ret, !.before = packet,
                        !.cin = IF r.ret = "this" THEN StatusCin(t) ELSE @]
  /\ UNCHANGED <<portVars, ret, serialVars, ccVars, clockVars, fileVars>>

PacketSet(type, channel, data1, data2) ==
  Encoded(<<"set", type, channel, data1, data2>>,
          set(packet, type, channel, data1, data2), type)

PacketSetRaw(data0, data1, data2) ==
  Encoded(<<"setRaw", data0, data1, data2>>, setRaw(packet, data0, data1, data2),
          getStatus(data0))

PacketSetSystem(type, data1, data2) ==
  Encoded(<<"setSystem", type, data1, data2>>, setSystem(packet, type, data1, data2),
          type)

PacketSetNote(channel, note, velocity) ==
  Encoded(<<"setNote", channel, note, velocity>>,
          setNote(packet, channel, note, velocity),
          IF velocity = 0 THEN NoteOff ELSE NoteOn)

PacketSetNoteOff(channel, note, velocity) ==
  Encoded(<<"setNoteOff", channel, note, velocity>>,
          setNoteOff(packet, channel, note, velocity), NoteOff)

PacketSetAftertouch(channel, note, pressure) ==
  Encoded(<<"setAftertouch", channel, note, pressure>>,
          setAftertouch(packet, channel, note, pressure), Aftertouch)

PacketSetControlChange(channel, controller, value) ==
  Encoded(<<"setControlChange", channel, controller, value>>,
          setControlChange(packet, channel, controller, value), ControlChange)

PacketSetAftertouchChannel(channel, pressure) ==
  Encoded(<<"setAftertouchChannel", channel, pressure>>,
          setAftertouchChannel(packet, channel, pressure), AftertouchChannel)

PacketSetProgram(channel, value) ==
  Encoded(<<"setProgram", channel, value>>, setProgram(packet, channel, value),
          ProgramChange)

PacketSetPitchBend(channel, value) ==
  Encoded(<<"setPitchBend", channel, value>>, setPitchBend(packet, channel, value),
          PitchBend)

PacketSetPort(port) ==
  /\ enc.ret # "abort"
  /\ enc.n < MaxEncode
  /\ packet' = setPort(packet, port)
  /\ op' = "setPort"
  /\ enc' = [enc EXCEPT !.n = @ + 1, !.call = <<"setPort", port>>, !.ret = "void",
                        !.before = packet, !.port = port]
  /\ UNCHANGED <<portVars, ret, serialVars, ccVars, clockVars, fileVars>>

PacketSetChannel(channel) ==
  /\ enc.ret # "abort"
  /\ enc.n < MaxEncode
  /\ packet' = setChannel(packet, channel)
  /\ op' = "setChannel"
  /\ enc' = [enc EXCEPT !.n = @ + 1, !.call = <<"setChannel", channel>>, !.ret = "void",
                        !.before = packet]
  /\ UNCHANGED <<portVars, ret, serialVars, ccVars, clockVars, fileVars>>

NextPacket ==
  \/ \E type \in PacketTypes, channel \in PacketChannels, d \in PacketData :
       PacketSet(type, channel, d[1], d[2])
  \/ \E data0 \in PacketRawBytes : PacketSetRaw(data0, 60, 0)
  \/ \E type \in PacketSystemTypes : PacketSetSystem(type, 60, 0)
  \/ \E d \in PacketData :
       \/ PacketSetNote(5, d[1], d[2])
       \/ PacketSetNoteOff(5, d[1], d[2])
       \/ PacketSetAftertouch(5, d[1], d[2])
       \/ PacketSetControlChange(5, d[1], d[2])
       \/ PacketSetAftertouchChannel(5, d[1])
       \/ PacketSetProgram(5, d[1])
  \/ \E value \in PacketBends : PacketSetPitchBend(5, value)
  \/ \E port \in PacketPorts : PacketSetPort(port)
  \/ \E channel \in PacketChannels : PacketSetChannel(channel)
SpecPacket == InitAlone /\ [][NextPacket]_vars

\* setPitchBend() called once on a new Packet, with every 14-bit value
NextPitchBend ==
  /\ enc.n = 0
  /\ \E channel \in {0, 5, 15}, value \in -8192..8191 :
       PacketSetPitchBend(channel, value)
SpecPitchBend == InitAlone /\ [][NextPitchBend]_vars

(***************************************************************************)
(* The 14-bit controllers as a state machine.                              *)
(***************************************************************************)
\* the MSB controllers and their LSB controllers
CcMsb == ccFirst..(ccFirst + ccSize - 1)
CcLsb == {c + ControllerLSB : c \in CcMsb}
\* the 7-bit values setByte() is called with
CcValues == {0, 1, 64, 127}

\* the MSB controller of the pair the controller c belongs to
CcPair(c) == IF c < ControllerLSB THEN c ELSE c - ControllerLSB

\* setByte(controller, value), as one of at most max calls since reset()
SetByteWithin(max, controller, value) ==
  /\ Len(ccLog.calls) < max
  /\ LET r == setByte(controllers, controller, value)
     IN /\ controllers' = r.controllers
        /\ ccLog' = [ccLog EXCEPT !.calls =
                       Append(@, [controller |-> controller, value |-> value,
                                  changed |-> r.ret,
                                  now |-> get(r.controllers, CcPair(controller))])]
  /\ op' = "setByte"
  /\ UNCHANGED <<portVars, ret, serialVars, packetVars, clockVars, fileVars>>

SetByte(controller, value) == SetByteWithin(MaxSetByte, controller, value)

\* reset()
ResetControllers ==
  /\ controllers' = resetControllers
  /\ ccLog' = [reset |-> TRUE, calls |-> << >>]
  /\ op' = "reset"
  /\ UNCHANGED <<portVars, ret, serialVars, packetVars, clockVars, fileVars>>

NextControllers ==
  \/ \E controller \in CcMsb \cup CcLsb, value \in CcValues : SetByte(controller, value)
  \/ ResetControllers
SpecControllers == InitAlone /\ [][NextControllers]_vars

\* set(controller, value) with a 14-bit value
Set14(controller, value) ==
  /\ Len(ccLog.calls) < MaxSetByte
  /\ LET r == set14(controllers, controller, value)
     IN /\ controllers' = r.controllers
        /\ ccLog' = [ccLog EXCEPT !.calls =
                       Append(@, [controller |-> controller, value |-> value,
                                  changed |-> r.ret,
                                  now |-> get(r.controllers, controller)])]
  /\ op' = "set"
  /\ UNCHANGED <<portVars, ret, serialVars, packetVars, clockVars, fileVars>>

\* the tracker with set() called between the setByte() calls
NextTracker ==
  \/ NextControllers
  \/ \E controller \in CcMsb, value \in {0, 128, 16383} : Set14(controller, value)
SpecTracker == InitAlone /\ [][NextTracker]_vars

\* one controller pair through longer sequences of setByte() calls
NextTable ==
  \/ \E controller \in {ccFirst, ccFirst + ControllerLSB}, value \in {0, 1, 127} :
       SetByteWithin(MaxTable, controller, value)
  \/ ResetControllers
SpecTable == InitAlone /\ [][NextTable]_vars

(***************************************************************************)
(* The Clock as a state machine.                                           *)
(***************************************************************************)
\* update(event)
ClockUpdate(event) ==
  /\ clock.tick < MaxTick
  /\ LET r == update(clock, event)
     IN /\ clock' = r.clock
        /\ quarters' = [event |-> event, beats |-> r.quarters]
        /\ song' = SongStep(song, event, r.quarters)
  /\ op' = "update"
  /\ UNCHANGED <<portVars, ret, serialVars, packetVars, ccVars, fileVars>>

\* setBeat(beat)
ClockSetBeat(beat) ==
  /\ clock' = setBeat(clock, beat)
  /\ quarters' = [event |-> "none", beats |-> << >>]
  /\ song' = NoSong
  /\ op' = "setBeat"
  /\ UNCHANGED <<portVars, ret, serialVars, packetVars, ccVars, fileVars>>

\* reset()
ClockReset ==
  /\ clock' = resetClock
  /\ quarters' = [event |-> "none", beats |-> << >>]
  /\ song' = NoSong
  /\ op' = "reset"
  /\ UNCHANGED <<portVars, ret, serialVars, packetVars, ccVars, fileVars>>

NextClock ==
  \/ \E event \in {"Tick", "Start", "Continue", "Stop"} : ClockUpdate(event)
  \/ \E beat \in {0, 3, 4, 7} : ClockSetBeat(beat)
  \/ ClockReset
SpecClock == InitAlone /\ [][NextClock]_vars

(***************************************************************************)
(* readNumber() called on the variable-length quantities of one to four    *)
(* bytes whose 7-bit groups are taken from Groups.                         *)
(***************************************************************************)
Groups == {0, 1, 64, 127}

Quantities ==
  UNION {[1..n -> Groups] : n \in 1..4}

\* readNumber(cursor) with the cursor at the quantity, called once
ReadNumber(bits, at) ==
  /\ ~vlq.read
  /\ LET q == Quantity(bits, at)
         r == readNumber(q.data, q.at)
     IN vlq' = [q EXCEPT !.read = TRUE, !.number = r.number, !.cursor = r.cursor]
  /\ op' = "readNumber"
  /\ UNCHANGED <<portVars, ret, serialVars, packetVars, ccVars, clockVars, tracks,
                 played>>

NextNumber == \E bits \in Quantities, at \in {0, 1} : ReadNumber(bits, at)
SpecNumber == InitAlone /\ [][NextNumber]_vars

(***************************************************************************)
(* The Tracks object as a state machine.                                   *)
(***************************************************************************)
\* the bytes of a file: the header chunk with its signature, length, format, number
\* of tracks and division, and the track chunks
BE16(n) == <<n \div 256, n % 256>>
Chunk(signature, events) == signature \o <<0, 0>> \o BE16(Len(events)) \o events
SMF(signature, length, format, nTracks, division, chunks) ==
  signature \o <<0, 0>> \o BE16(length) \o BE16(format) \o BE16(nTracks)
    \o BE16(division) \o chunks
MThd == <<77, 84, 104, 100>>
MTrk == <<77, 84, 114, 107>>

\* one track: NoteOn, two ticks later a NoteOn in running status, end of track
FileOne ==
  SMF(MThd, 6, 0, 1, 4, Chunk(MTrk, <<0, 144, 60, 100, 2, 60, 0, 0, 255, 47, 0>>))
\* two tracks: a tempo of 250000 usec and a ProgramChange after one tick; a NoteOn
\* after one tick and a NoteOff one tick later, the track ending with its last byte
FileTwo ==
  SMF(MThd, 6, 1, 2, 4,
      Chunk(MTrk, <<0, 255, 81, 3, 3, 208, 144, 1, 193, 5, 0, 255, 47, 0>>)
        \o Chunk(MTrk, <<1, 145, 64, 127, 1, 129, 64, 0>>))
\* no track
FileNone == SMF(MThd, 6, 0, 0, 4, << >>)
\* a division of 0
FileStill == SMF(MThd, 6, 0, 1, 0, Chunk(MTrk, <<1, 144, 60, 100, 0, 255, 47, 0>>))
\* a track that begins with data bytes in running status
FileRunning == SMF(MThd, 6, 0, 1, 4, Chunk(MTrk, <<0, 5, 0, 193, 5, 0, 255, 47, 0>>))
\* two NoteOn at the same tick, the second in running status, and a NoteOff one tick
\* later
FileChord ==
  SMF(MThd, 6, 0, 1, 4,
      Chunk(MTrk, <<0, 144, 60, 100, 0, 64, 100, 1, 128, 60, 0, 0, 255, 47, 0>>))
\* two tracks of events at tick 0: a text, a SysEx event and a tempo of 250000 usec;
\* a tempo of 125000 usec and a NoteOn
FileMeta ==
  SMF(MThd, 6, 1, 2, 4,
      Chunk(MTrk, <<0, 255, 3, 1, 65, 0, 240, 1, 247, 0, 255, 81, 3, 3, 208, 144,
                    0, 255, 47, 0>>)
        \o Chunk(MTrk, <<0, 255, 81, 3, 1, 232, 72, 0, 145, 64, 127, 0, 255, 47, 0>>))
GoodFiles ==
  {FileOne, FileTwo, FileNone, FileStill, FileRunning, FileChord, FileMeta}

\* files load() refuses: no MThd, a header length of 7, format 2, 17 tracks, a
\* division of 0x8001, a track chunk without MTrk
BadFiles ==
  {SMF(<<77, 84, 104, 120>>, 6, 0, 1, 4, Chunk(MTrk, <<0, 255, 47, 0>>)),
   SMF(MThd, 7, 0, 1, 4, Chunk(MTrk, <<0, 255, 47, 0>>)),
   SMF(MThd, 6, 2, 1, 4, Chunk(MTrk, <<0, 255, 47, 0>>)),
   SMF(MThd, 6, 1, 17, 4, Chunk(MTrk, <<0, 255, 47, 0>>)),
   SMF(MThd, 6, 0, 1, 32769, Chunk(MTrk, <<0, 255, 47, 0>>)),
   SMF(MThd, 6, 1, 2, 4, Chunk(MTrk, <<0, 255, 47, 0>>)
                           \o Chunk(<<77, 84, 114, 120>>, <<0, 255, 47, 0>>))}

\* an operation other than run() with what it reported and returned
FileCalled(name, r, ok, tag) ==
  /\ played.n < MaxFileCalls
  /\ tracks' = r.tracks
  /\ played' = [played EXCEPT
       !.n = @ + 1, !.ok = ok, !.tag = tag, !.reported = r.reported,
       !.state = IF r.reported = << >> THEN @ ELSE r.reported[Len(r.reported)],
       !.sends = IF name = "play" /\ ok THEN << >> ELSE @,
       !.stops = IF name = "play" /\ ok THEN 0
                 ELSE @ + Len(SelectSeq(r.reported, LAMBDA s : s = "Stop")),
       !.passed = 0]
  /\ op' = name
  /\ UNCHANGED <<portVars, ret, serialVars, packetVars, ccVars, clockVars, vlq>>

\* load(data)
Load(data) ==
  LET r == load(tracks, data) IN FileCalled("load", r, r.ret, played.tag)

\* play()
Play ==
  LET r == play(tracks) IN FileCalled("play", r, r.ret, played.tag)

\* stop()
Stop ==
  LET r == stop(tracks) IN FileCalled("stop", r, played.ok, played.tag)

\* copyTag(meta, text, size)
CopyTag(meta, size, length) ==
  LET r == copyTag(tracks, meta, size, length)
  IN FileCalled("copyTag", [tracks |-> r.tracks, reported |-> << >>], played.ok, r.ret)

\* run(), passedUsec after the last run() or play(); Ran records what it did
Ran(r, passedUsec) ==
  /\ tracks' = r.tracks
  /\ played' = [played EXCEPT
       !.reported = r.reported,
       !.state = IF r.reported = << >> THEN @ ELSE r.reported[Len(r.reported)],
       !.sends = @ \o r.sends,
       !.stops = @ + Len(r.reported),
       !.passed = passedUsec]
  /\ op' = "run"
  /\ UNCHANGED <<portVars, ret, serialVars, packetVars, ccVars, clockVars, vlq>>

Run(passedUsec) == Ran(run(tracks, passedUsec), passedUsec)

\* the microseconds between two run() calls: none, half a tick and four ticks at
\* 120 beats per minute and a division of 4
PassedUsec == {0, 62500, 500000}

NextFile ==
  \/ \E data \in GoodFiles \cup BadFiles \cup {<< >>} : Load(data)
  \/ Play
  \/ Stop
  \/ \E meta \in {MetaTempo, 3}, size \in {2, 8}, length \in {0, 2} :
       CopyTag(meta, size, length)
  \/ \E passedUsec \in PassedUsec : Run(passedUsec)
SpecFile == InitAlone /\ [][NextFile]_vars

(***************************************************************************)
(* Properties.                                                             *)
(***************************************************************************)
\* the system real-time statuses
RealTime == {SystemClock, SystemStart, SystemContinue, SystemStop, 254, SystemReset}

\* s is a prefix of t
IsPrefix(s, t) == Len(s) <= Len(t) /\ SubSeq(t, 1, Len(s)) = s

\* C1: the frames of a well-formed stream S (0xF0, data bytes, 0xF7; CIN-4 frames,
\* then one end frame), dispatched to a Port whose inbound side is idle and whose
\* capacity is at least |S|, invoke no handler before the end frame and the SysEx
\* handler exactly once at the end frame, with the buffer S and the length |S|.
C1_Reassembly ==
  Len(fed) <= sysexSize =>
    /\ fedSt = "open" => fedCalls = 0 /\ calls = << >>
    /\ fedSt = "done" =>
         /\ fedCalls = 1
         /\ \E transport \in Transports :
              calls = << <<"handleSystemExclusiveT", transport, fed, Len(fed)>>,
                         <<"handleSystemExclusive", fed, Len(fed)>> >>

\* a stream of two CIN-4 frames and a one-byte end frame was delivered
C1_Witness == fedSt = "done" /\ Len(fed) = 7 /\ fedCalls = 1

\* C2 as claimed: whatever frames are dispatched, every SysEx handler call gets a
\* buffer of length >= 2 that starts with 0xF0 and ends with 0xF7.
C2_Original ==
  \A i \in 1..Len(calls) :
    calls[i][1] = "handleSystemExclusiveT" =>
      /\ calls[i][4] >= 2
      /\ calls[i][3][1] = 240
      /\ calls[i][3][calls[i][4]] = 247

\* C3 as claimed: a frame that would exceed the capacity discards the stream (length
\* 0, not appending, no handler), and the continuation, single-byte and end frames
\* that follow as the rest of that stream invoke no handler.
C3_Original ==
  [][/\ (op' = "dispatch" /\ Overflows(sysex.in, sysexSize, pkt')) =>
          (sysex'.in.length = 0 /\ ~sysex'.in.appending /\ calls' = << >>)
     /\ (cut = "overflow" /\ op' = "dispatch"
           /\ (Cin(pkt') = 15 \/ StreamTail(pkt'))) => calls' = << >>]_vars

C5_Original ==
  (op = "dispatch"
     /\ \/ Cin(pkt) = 5 /\ pkt[2] # 247
        \/ Cin(pkt) = 6 /\ pkt[3] # 247
        \/ Cin(pkt) = 7 /\ pkt[4] # 247
        \/ Cin(pkt) = 15 /\ pkt[2] \notin RealTime
        \/ Cin(pkt) \in {0, 1})
    => calls = << >> /\ sysex.in.length = 0 /\ ~sysex.in.appending

\* the frames of message m on cable idx: CIN-4 frames of three bytes while more than
\* three bytes remain, then one frame with CIN 5, 6 or 7 for the last 1, 2 or 3
\* bytes, unused bytes zero
RECURSIVE RefFrames(_, _)
RefFrames(m, idx) ==
  IF Len(m) <= 3
    THEN << <<idx * 16 + 4 + Len(m), m[1], IF Len(m) >= 2 THEN m[2] ELSE 0,
              IF Len(m) >= 3 THEN m[3] ELSE 0>> >>
    ELSE << <<idx * 16 + 4, m[1], m[2], m[3]>> >> \o RefFrames(SubSeq(m, 4, Len(m)), idx)

\* the payload bytes of a sequence of SysEx frames, concatenated
RECURSIVE Unframe(_)
Unframe(fs) ==
  IF fs = << >> THEN << >>
  ELSE SubSeq(Tail(fs[1]), 1, Payload(Cin(fs[1]))) \o Unframe(Tail(fs))

\* no offer of the sequence was refused
AllOk(os) == \A i \in 1..Len(os) : os[i].ok

\* the last operation was refused a frame
Refused == offers # << >> /\ ~offers[Len(offers)].ok

\* C6: while an outbound SysEx transmission is in progress, send() returns false,
\* offers nothing for sending and changes no counter; the frames accepted since the
\* transmission began are frames of that SysEx only.
C6_SendRefused ==
  /\ [][(tx = "active" /\ op' = "send") =>
          (ret' = FALSE /\ offers' = << >> /\ statistics' = statistics
             /\ sysex' = sysex)]_vars
  /\ [](tx \in {"active", "done"} => IsPrefix(wire, RefFrames(sysex.out.buffer, index)))

\* send() was called during a transmission and refused
C6_Witness == op = "send" /\ tx = "active" /\ ret = FALSE /\ wire # << >>

\* C7: sendSystemExclusive on a message of length L >= 2 from 0xF0 to 0xF7, with a
\* transport that accepts every frame, sends exactly ceil(L/3) frames: CIN-4 frames
\* of three bytes, then one CIN-5/6/7 frame with the last 1, 2 or 3 bytes, all on
\* the cable of the port index, the payloads concatenated being the message; on any
\* other message it sends nothing and leaves the outbound state and the counters.
C7_Framing ==
  [][op' = "sendSystemExclusive" =>
       LET msg == sysex'.out.buffer IN
       IF WellFormed(msg)
         THEN AllOk(offers') =>
                /\ Accepted(offers') = RefFrames(msg, index)
                /\ Len(offers') = (Len(msg) + 2) \div 3
                /\ Unframe(Accepted(offers')) = msg
                /\ \A i \in 1..Len(offers') : offers'[i].pkt[1] \div 16 = index
                /\ sysex'.out.length = 0
         ELSE /\ offers' = << >>
              /\ sysex'.out.transport = sysex.out.transport
              /\ sysex'.out.length = sysex.out.length
              /\ sysex'.out.position = sysex.out.position
              /\ statistics' = statistics]_vars

\* a message of seven bytes went out in three frames within one call
C7_Witness ==
  op = "sendSystemExclusive" /\ Len(offers) = 3 /\ AllOk(offers) /\ tx = "done"

\* C8: a refused frame leaves the send position and every counter as they were; the
\* next loopSystemExclusive() offers that very frame again; so whatever the refusals,
\* the frames accepted are the first position/3 frames of the message while the
\* transmission is pending, and all its frames once it is complete.
C8_Backpressure ==
  /\ [][(op' \in {"loopSystemExclusive", "sendSystemExclusive"} /\ Refused') =>
          /\ sysex'.out.length > 0
          /\ LoopPacket(sysex'.out, index) = offers'[Len(offers')].pkt
          /\ statistics'.output.packet =
               statistics.output.packet + Len(Accepted(offers'))
          /\ op' = "loopSystemExclusive" => sysex' = sysex /\ statistics' = statistics]_vars
  /\ [][(op \in {"loopSystemExclusive", "sendSystemExclusive"} /\ Refused
           /\ op' = "loopSystemExclusive") =>
          (offers' # << >> /\ offers'[1].pkt = offers[Len(offers)].pkt)]_vars
  /\ [](tx = "active" =>
          /\ sysex.out.position % 3 = 0
          /\ sysex.out.position < sysex.out.length
          /\ wire = SubSeq(RefFrames(sysex.out.buffer, index), 1, sysex.out.position \div 3))
  /\ [](tx = "done" => wire = RefFrames(sysex.out.buffer, index))

\* a frame after the first was refused in loopSystemExclusive()
C8_Witness ==
  op = "loopSystemExclusive" /\ Refused /\ tx = "active" /\ wire # << >>

\* C9 as claimed: when the transport refuses a frame, loopSystemExclusive() returns 1.
C9_Original == (op = "loopSystemExclusive" /\ Refused) => ret = 1

\* C9, amended: when the transport refuses a frame of an outbound SysEx,
\* loopSystemExclusive() returns -1 (sending failed); the transmission stays pending
\* for a retry.
C9_RefusedReturn ==
  (op = "loopSystemExclusive" /\ Refused) => (ret = -1 /\ sysex.out.length > 0)

\* loopSystemExclusive() was refused a frame
C9_Witness == op = "loopSystemExclusive" /\ Refused /\ ret = -1

\* C10: resetSystemExclusive() leaves the inbound side with length 0, not appending,
\* and the outbound side with length 0 and position 0; a loopSystemExclusive() that
\* follows returns 0 and offers nothing, a send() that follows hands its packet to
\* handleSend, and the continuation and end frames of the inbound stream that was cut
\* off invoke no SysEx handler.
C10_Reset ==
  /\ [](op = "resetSystemExclusive" =>
          /\ sysex.in.length = 0 /\ ~sysex.in.appending
          /\ sysex.out.length = 0 /\ sysex.out.position = 0)
  /\ [][(op = "resetSystemExclusive" /\ op' = "loopSystemExclusive") =>
          (ret' = 0 /\ offers' = << >> /\ statistics' = statistics)]_vars
  /\ [][(op = "resetSystemExclusive" /\ op' = "send") =>
          (Len(offers') = 1 /\ ret' = offers'[1].ok)]_vars
  /\ [][(cut = "reset" /\ op' = "dispatch" /\ StreamTail(pkt')) =>
          SysExCalls(calls') = 0]_vars

\* a reset cut off an inbound stream and an outbound transmission
C10_Witness == op = "resetSystemExclusive" /\ cut = "reset" /\ tx = "aborted"

\* no counter of c is above its value in d
CounterLeq(c, d) ==
  /\ c.packet <= d.packet
  /\ c.note <= d.note
  /\ c.noteOff <= d.noteOff
  /\ c.aftertouch <= d.aftertouch
  /\ c.control <= d.control
  /\ c.program <= d.program
  /\ c.aftertouchChannel <= d.aftertouchChannel
  /\ c.pitchbend <= d.pitchbend
  /\ c.system.clock.tick <= d.system.clock.tick
  /\ c.system.exclusive <= d.system.exclusive
  /\ c.system.reset <= d.system.reset

\* C11: no operation of the Port lowers an input or an output counter (the counters
\* are uint32_t and stay far below 2^32 in every behaviour explored here).
C11_Monotonic ==
  [][/\ CounterLeq(statistics.input, statistics'.input)
     /\ CounterLeq(statistics.output, statistics'.output)]_vars

\* both directions have counted, and resetSystemExclusive() left the counts
C11_Witness ==
  /\ op = "resetSystemExclusive"
  /\ statistics.input.packet > 0
  /\ statistics.output.packet > 0

(***************************************************************************)
(* Properties of the serial parser.                                        *)
(***************************************************************************)
\* a status byte of a channel-voice message
IsChannelVoice(b) == b >= 128 /\ b < 240

\* the number of data bytes of the channel-voice message with status byte b
DataLen(b) == IF getStatus(b) \in {ProgramChange, AftertouchChannel} THEN 1 ELSE 2

\* reading a stream of complete channel-voice messages: ok while it is one, status
\* the status byte in force, have the data bytes of the message under way, done
\* after the last byte of a message, ran once a message came without its status
\* byte, out the messages completed, [at, bytes]
RefInit ==
  [ok |-> TRUE, status |-> 0, have |-> << >>, done |-> FALSE, ran |-> FALSE,
   out |-> << >>]

\* the reading after the byte b, the at-th of the stream; running says whether a
\* message may leave out its status byte
RefStep(r, b, at, running) ==
  IF ~r.ok THEN r
  ELSE IF b >= 128
    THEN IF IsChannelVoice(b) /\ r.have = << >> /\ (r.status = 0 \/ r.done)
           THEN [r EXCEPT !.status = b, !.done = FALSE]
         ELSE [r EXCEPT !.ok = FALSE]
  ELSE IF r.status = 0 \/ (r.done /\ ~running) THEN [r EXCEPT !.ok = FALSE]
  ELSE LET have == Append(r.have, b)
           q == [r EXCEPT !.ran = @ \/ r.done]
       IN IF Len(have) = DataLen(r.status)
            THEN [q EXCEPT !.have = << >>, !.done = TRUE,
                           !.out = Append(@, [at |-> at,
                                     bytes |-> <<r.status, have[1],
                                                 IF Len(have) = 2 THEN have[2] ELSE 0>>])]
          ELSE [q EXCEPT !.have = have, !.done = FALSE]

RECURSIVE RefRun(_, _, _, _)
RefRun(bytes, i, r, running) ==
  IF i > Len(bytes) THEN r
  ELSE RefRun(bytes, i + 1, RefStep(r, bytes[i], i, running), running)

\* the stream read from its first byte
Ref(bytes, running) == RefRun(bytes, 1, RefInit, running)

\* status, channel and data bytes of the packets returned, with the place in the stream
Returned(out) == [i \in 1..Len(out) |-> [at |-> out[i].at, bytes |-> Tail(out[i].data)]]

\* the bytes of a stream that are no real-time bytes
NoRealTime(bytes) == SelectSeq(bytes, LAMBDA b : b \notin SerialRealTime)

\* the packets of a sequence that are no real-time messages
NoRealTimeOut(out) == SelectSeq(out, LAMBDA o : o.data[2] \notin SerialRealTime)

\* the data of the packets of a sequence
DataOf(out) == [i \in 1..Len(out) |-> out[i].data]

\* C12: once a complete channel message has been returned, data bytes that come
\* without a status byte are parsed as further messages with the status and channel
\* latched: a stream of complete channel-voice messages, some without their status
\* byte, gives one packet per message, on its last byte.
C12_Original ==
  LET r == Ref(rxBytes, TRUE) IN (r.ok /\ r.ran) => Returned(rxOut) = r.out

C14_Original ==
  LET r == Ref(rxBytes, FALSE) IN r.ok => Returned(rxOut) = r.out

(***************************************************************************)
(* Properties of the Packet.                                               *)
(***************************************************************************)
\* the statuses of the channel-voice messages
ChannelVoice ==
  {NoteOff, NoteOn, Aftertouch, ControlChange, ProgramChange, AftertouchChannel,
   PitchBend}

\* C15: after any sequence of encoding operations on a Packet, the code index number
\* in the low nibble of byte 0 is the one that goes with the status encoded last, and
\* the high nibble is the port set last.
C15_Original ==
  (enc.cin # -1 /\ enc.ret # "abort") =>
    (Cin(packet) = enc.cin /\ packet[1] \div 16 = enc.port)

\* C16: after set(s, ch, d1, d2) with a channel-voice status s, ch < 16 and
\* d1, d2 < 128 the packet decodes to the same values: getType() = s,
\* getChannel() = ch, byte 2 = d1, byte 3 = d2.
C16_RoundTrip ==
  (enc.call[1] = "set" /\ enc.call[2] \in ChannelVoice /\ enc.call[3] < 16
     /\ enc.call[4] < 128 /\ enc.call[5] < 128) =>
    /\ enc.ret = "this"
    /\ getType(packet) = enc.call[2]
    /\ getChannel(packet) = enc.call[3]
    /\ packet[3] = enc.call[4]
    /\ packet[4] = enc.call[5]

\* a PitchBend was encoded on channel 5 into a packet that held something else
C16_Witness ==
  /\ enc.call = <<"set", PitchBend, 5, 127, 100>>
  /\ enc.n > 1
  /\ packet[2] = PitchBend + 5

\* C17: setPitchBend(ch, v) with v in -8192..8191 and ch < 16 writes the status
\* 0xE0 | ch, the low 7 bits of v + 8192 as data 1 and its high 7 bits as data 2, and
\* getPitchBend() on that packet returns v.
C17_Original ==
  (enc.call[1] = "setPitchBend" /\ enc.call[2] < 16
     /\ enc.call[3] >= -8192 /\ enc.call[3] <= 8191) =>
    /\ packet[2] = PitchBend + enc.call[2]
    /\ packet[3] = (enc.call[3] + 8192) % 128
    /\ packet[4] = (enc.call[3] + 8192) \div 128
    /\ getPitchBend(packet) = enc.call[3]

\* C18: encoding a status that has no packet encoding with set(type, channel, ...),
\* a system status with its channel among them, or with setSystem(type, ...),
\* returns null and leaves the bytes of the packet; the program does not abort.
C18_Original ==
  (\/ enc.call[1] = "set" /\ enc.call[2] \notin ChannelVoice
   \/ enc.call[1] = "setSystem" /\ StatusCin(enc.call[2]) \notin {2, 3, 15}) =>
    (enc.ret = "NULL" /\ packet = enc.before)

(***************************************************************************)
(* Properties of the 14-bit controllers.                                   *)
(***************************************************************************)
\* the calls since reset() are MSB = m, LSB = l on one pair
MsbLsb ==
  /\ Len(ccLog.calls) = 2
  /\ ccLog.calls[1].controller \in CcMsb
  /\ ccLog.calls[2].controller = ccLog.calls[1].controller + ControllerLSB

\* the calls since reset() are MSB = m, MSB = m, LSB = l on one pair
MsbMsbLsb ==
  /\ Len(ccLog.calls) = 3
  /\ ccLog.calls[1].controller \in CcMsb
  /\ ccLog.calls[2].controller = ccLog.calls[1].controller
  /\ ccLog.calls[2].value = ccLog.calls[1].value
  /\ ccLog.calls[3].controller = ccLog.calls[1].controller + ControllerLSB

\* the number of calls since reset() that reported a change
Changes == Cardinality({i \in 1..Len(ccLog.calls) : ccLog.calls[i].changed})

\* C19 as claimed: after reset(), MSB = m then LSB = l report exactly one change in
\* total, with the value (m << 7) | l.
C19_Original ==
  MsbLsb =>
    /\ Changes = 1
    /\ \A i \in 1..2 : ccLog.calls[i].changed =>
         ccLog.calls[i].now = ccLog.calls[1].value * 128 + ccLog.calls[2].value

\* C19, amended: after reset(), the call MSB = m reports a change exactly if m # 0,
\* the value then being m << 7, and the call LSB = l that follows reports a change
\* exactly if l # 0; the value after it is (m << 7) | l.
C19_FirstPair ==
  MsbLsb =>
    /\ ccLog.calls[1].changed = (ccLog.calls[1].value # 0)
    /\ ccLog.calls[1].now = ccLog.calls[1].value * 128
    /\ ccLog.calls[2].changed = (ccLog.calls[2].value # 0)
    /\ ccLog.calls[2].now = ccLog.calls[1].value * 128 + ccLog.calls[2].value

\* after a reset() of controllers in use, MSB = 127 then LSB = 64 both reported a change
C19_Witness ==
  /\ MsbLsb
  /\ ccLog.reset
  /\ ccLog.calls[1].value = 127 /\ ccLog.calls[2].value = 64
  /\ Changes = 2
  /\ ccLog.calls[2].now = 127 * 128 + 64

\* C20 as claimed: after reset(), of the calls MSB = m, MSB = m, LSB = l the first
\* reports no change, the second one with the value m << 7 and the third one with
\* the value (m << 7) | l.
C20_Original ==
  MsbMsbLsb =>
    /\ ~ccLog.calls[1].changed
    /\ ccLog.calls[2].changed /\ ccLog.calls[2].now = ccLog.calls[1].value * 128
    /\ ccLog.calls[3].changed
    /\ ccLog.calls[3].now = ccLog.calls[1].value * 128 + ccLog.calls[3].value

\* C20, amended: after reset(), of the calls MSB = m, MSB = m, LSB = l the first
\* reports a change exactly if m # 0, the value then being m << 7, the second
\* reports none, and the third reports one exactly if l # 0; the value after it is
\* (m << 7) | l.
C20_RepeatedMsb ==
  MsbMsbLsb =>
    /\ ccLog.calls[1].changed = (ccLog.calls[1].value # 0)
    /\ ccLog.calls[1].now = ccLog.calls[1].value * 128
    /\ ~ccLog.calls[2].changed
    /\ ccLog.calls[2].now = ccLog.calls[1].value * 128
    /\ ccLog.calls[3].changed = (ccLog.calls[3].value # 0)
    /\ ccLog.calls[3].now = ccLog.calls[1].value * 128 + ccLog.calls[3].value

\* after a reset(), MSB = 1, MSB = 1, LSB = 127 reported two changes
C20_Witness ==
  /\ MsbMsbLsb
  /\ ccLog.reset
  /\ ccLog.calls[1].value = 1 /\ ccLog.calls[3].value = 127
  /\ Changes = 2
  /\ ccLog.calls[3].now = 255

\* C21: setByte() with a 7-bit value returns true exactly if it changed the value
\* get() gives for the controller pair, no other pair's value changes, and every
\* stored value stays within 0..16383.
C21_Changed ==
  /\ [][op' = "setByte" =>
          LET last == ccLog'.calls[Len(ccLog'.calls)]
              c    == CcPair(last.controller)
          IN /\ last.changed = (get(controllers', c) # get(controllers, c))
             /\ \A d \in CcMsb \ {c} : get(controllers', d) = get(controllers, d)]_vars
  /\ [](\A c \in CcMsb : get(controllers, c) \in 0..16383)

\* an MSB was deferred in the state HighResolution and reported no change, the
\* value 16383 staying while the MSB 1 is pending
C21_Witness ==
  /\ op = "setByte"
  /\ Len(ccLog.calls) = 3
  /\ \E i \in 0..(ccSize - 1) :
       /\ controllers[i].state = "Wait"
       /\ controllers[i].value = 16383
       /\ controllers[i].msb = 1
  /\ ~ccLog.calls[3].changed

(***************************************************************************)
(* Properties of the Clock.                                                *)
(***************************************************************************)
\* C22: update(Tick) of a running Clock calls handleQuarter(tick / 24) exactly when
\* tick % 24 = 0, tick being the value before the call, and then counts the tick up
\* by one; update(Tick) of a Clock that is not running calls nothing and leaves the
\* tick.  (tick is a uint32_t and stays far below 2^32 here.)
C22_Tick ==
  [][(op' = "update" /\ quarters'.event = "Tick") =>
       /\ clock.run =>
            /\ (clock.tick % 24 = 0) => quarters'.beats = <<clock.tick \div 24>>
            /\ (clock.tick % 24 # 0) => quarters'.beats = << >>
            /\ clock'.tick = clock.tick + 1
            /\ clock'.run
       /\ ~clock.run => quarters'.beats = << >> /\ clock' = clock]_vars

\* the tick 24 of a running Clock called handleQuarter(1)
C22_Witness ==
  /\ op = "update"
  /\ clock = [run |-> TRUE, tick |-> 25]
  /\ quarters = [event |-> "Tick", beats |-> <<1>>]

(***************************************************************************)
(* Properties of the Standard MIDI File.                                   *)
(***************************************************************************)
\* the integer the 7-bit groups bits encode, the most significant first
RECURSIVE Encoded7(_)
Encoded7(bits) ==
  IF bits = << >> THEN 0
  ELSE Encoded7(SubSeq(bits, 1, Len(bits) - 1)) * 128 + bits[Len(bits)]

\* C23: readNumber() decodes a well-formed variable-length quantity of one to four
\* bytes to the integer it encodes and leaves the cursor just past its last byte;
\* 0x81 0x80 0x00 decodes to 16384 and 0x7F to 127.
C23_ReadNumber ==
  /\ vlq.read =>
       /\ vlq.number = Encoded7(vlq.bits)
       /\ vlq.cursor = vlq.at + Len(vlq.bits)
  /\ readNumber(<<129, 128, 0>>, 0) = [number |-> 16384, cursor |-> 3]
  /\ readNumber(<<127>>, 0) = [number |-> 127, cursor |-> 1]

\* the largest quantity, 0xFF 0xFF 0xFF 0x7F, was decoded to 0x0FFFFFFF
C23_Witness ==
  /\ vlq.read
  /\ vlq.bits = <<127, 127, 127, 127>>
  /\ vlq.number = 268435455
  /\ vlq.cursor = vlq.at + 4

\* C24: load() of a file without MThd, with a header length other than 6, a format
\* above 1, more than 16 tracks, a division with the top bit set or a track chunk
\* without MTrk returns false and leaves the state Empty, whatever the state was; and
\* in the state Empty play() returns false, run() does nothing and getFormat(),
\* getTrackCount() and getTrack() report that nothing is loaded.
C24_LoadFails ==
  /\ [][(op' = "load" /\ tracks'.data \in BadFiles) =>
          (~played'.ok /\ tracks'.state = "Empty")]_vars
  /\ [](tracks.state = "Empty" =>
          /\ ~play(tracks).ret /\ play(tracks).tracks = tracks
          /\ \A passedUsec \in PassedUsec :
               run(tracks, passedUsec) =
                 [tracks |-> tracks, sends |-> << >>, reported |-> << >>]
          /\ getFormat(tracks) = -1
          /\ getTrackCount(tracks) = -1
          /\ \A track \in 0..(maxTracks - 1) : getTrack(tracks, track) = -1)

\* load() refused a file while another was playing and had sent a packet
C24_Witness ==
  /\ op = "load"
  /\ tracks.data \in BadFiles
  /\ ~played.ok
  /\ tracks.state = "Empty"
  /\ played.state = "Play"
  /\ played.sends # << >>

\* C25 as claimed: the state that handleStateChange() reported last is the state of
\* the Tracks object, Empty while nothing was reported.
C25_Original ==
  tracks.state = (IF played.state = "none" THEN "Empty" ELSE played.state)

\* C26 as claimed: with run() called again and again while the time passes, a
\* playback that play() started comes to its end.  run() is a function of the Tracks
\* object and the time passed, so that a playback it leaves as it is never ends:
\* while the state is Play, a run() call after which time has passed changes the
\* object; Stop is reported once for a playback, by the run() call that finds every
\* track at its end, and run() in the state Stop does nothing.
C26_Original ==
  /\ [][(op' = "run" /\ tracks.state = "Play") =>
          /\ played'.passed > 0 => tracks' # tracks
          /\ (\A i \in 0..(tracks.header.nTracks - 1) : tracks.play.tracks[i].end)
               <=> (tracks'.state = "Stop" /\ played'.reported = <<"Stop">>)]_vars
  /\ [][(op' = "run" /\ tracks.state = "Stop") =>
          (tracks' = tracks /\ played'.reported = << >> /\ played'.sends = played.sends)]_vars
  /\ [](played.stops <= 1)

\* the handleSend() calls due for the track i by the tick T (in units of 1 / TickUnit):
\* those of its events, read from the cursor on, whose deltas add up to T or less
RECURSIVE Due(_, _, _, _, _, _, _)
Due(f, i, t, e, cursor, tick, T) ==
  LET r == readEvent(f.data, t, e, cursor)
  IN IF ~r.ok \/ (tick + r.e.delta) * TickUnit > T THEN << >>
     ELSE SendOf(f, i, r.e)
            \o Due(f, i, [t EXCEPT !.running = r.running], r.e, r.cursor,
                   tick + r.e.delta, T)

\* the track t with no running status latched
Fresh(t) == [t EXCEPT !.running = [status |-> 0, channel |-> 0]]

\* the handleSend() calls made for the track i since play()
Sent(i) == SelectSeq(played.sends, LAMBDA s : s.track = i)

\* C27 as claimed: when run() returns, every track that is not at its end has sent
\* all the events whose deltas add up to the playback tick or less.
C27_Original ==
  (op = "run" /\ tracks.state = "Play") =>
    \A i \in 0..(tracks.header.nTracks - 1) :
      ~tracks.play.tracks[i].end =>
        Len(Due(tracks, i, Fresh(tracks.tracks[i]), NoEvent, 0, 0, tracks.play.tick))
          <= Len(Sent(i))

\* C28 as claimed: a pass over a track starts without running status, so that what a
\* playback has sent for a track is what the events of the track give when they are
\* read from its beginning with no status latched: a data byte before the first
\* status byte of the pass is not sent with the status of an earlier pass.
C28_Original ==
  tracks.state \in {"Play", "Stop"} =>
    \A i \in 0..(tracks.header.nTracks - 1) :
      IsPrefix(Sent(i), Due(tracks, i, Fresh(tracks.tracks[i]), NoEvent, 0, 0, 1048576))

(***************************************************************************)
(* Properties of the inbound dispatch of complete messages.                *)
(***************************************************************************)
\* the name of the handler Port declares for the message of a frame, by the code
\* index and, for the code indexes shared by several statuses, the status byte;
\* "none" for TimeCodeQuarterFrame and ActiveSensing, which have no handler
HandlerName(p) ==
  LET cin == Cin(p) IN
  CASE cin = 8 -> "handleNoteOff"
    [] cin = 9 -> "handleNote"
    [] cin = 10 -> "handleAftertouch"
    [] cin = 11 -> "handleControlChange"
    [] cin = 12 -> "handleProgramChange"
    [] cin = 13 -> "handleAftertouchChannel"
    [] cin = 14 -> "handlePitchBend"
    [] cin = 3 -> "handleSongPosition"
    [] cin = 2 /\ p[2] = 243 -> "handleSongSelect"
    [] cin = 15 /\ p[2] \in {248, 250, 251, 252} -> "handleClock"
    [] cin = 15 /\ p[2] = 255 -> "handleSystemReset"
    [] OTHER -> "none"

\* the calls are handlePacket with the frame p, then the handler of its message and
\* nothing else
Delivered(cs, p) ==
  /\ Len(cs) = (IF HandlerName(p) = "none" THEN 1 ELSE 2)
  /\ cs[1] = <<"handlePacket", p>>
  /\ Len(cs) = 2 => cs[2][1] = HandlerName(p)

\* C29: a channel-voice, SongPosition, SongSelect or TimeCodeQuarterFrame frame
\* dispatched while an inbound SysEx stream is open is delivered as one message
\* (handlePacket, then the handler of its status where Port has one, no SysEx
\* handler) and leaves the inbound side empty and closed; the continuation and end
\* frames that follow as the rest of the dropped stream invoke no handler and leave
\* the inbound side closed.
C29_Dropped ==
  [][/\ (op' = "dispatch" /\ sysex.in.appending /\ IsMessageCin(Cin(pkt'))) =>
          /\ Delivered(calls', pkt')
          /\ sysex'.in.length = 0
          /\ ~sysex'.in.appending
     /\ (op' = "dispatch" /\ cut = "message" /\ StreamTail(pkt')) =>
          /\ calls' = << >>
          /\ ~sysex'.in.appending
          /\ statistics'.input.system.exclusive = statistics.input.system.exclusive]_vars

\* a NoteOn frame dropped an open stream, and a continuation frame of that stream has
\* been dispatched since without a handler call
C29_Witness ==
  /\ op = "dispatch"
  /\ cut = "message"
  /\ pkt = <<CinSystemExclusiveStart, 3, 4, 5>>
  /\ calls = << >>
  /\ ~sysex.in.appending
  /\ statistics.input.note = 1

\* the input counters c after one more packet that is the message of the frame p:
\* the counter of its kind by the code index, and for a single-byte frame the status
\* byte; no other counter than packet for SongPosition, SongSelect,
\* TimeCodeQuarterFrame, Start, Continue, Stop and ActiveSensing
Counted(c, p) ==
  LET cin == Cin(p)
      d == [c EXCEPT !.packet = @ + 1]
  IN CASE cin = 8 -> [d EXCEPT !.noteOff = @ + 1]
       [] cin = 9 -> [d EXCEPT !.note = @ + 1]
       [] cin = 10 -> [d EXCEPT !.aftertouch = @ + 1]
       [] cin = 11 -> [d EXCEPT !.control = @ + 1]
       [] cin = 12 -> [d EXCEPT !.program = @ + 1]
       [] cin = 13 -> [d EXCEPT !.aftertouchChannel = @ + 1]
       [] cin = 14 -> [d EXCEPT !.pitchbend = @ + 1]
       [] cin = 15 /\ p[2] = 248 -> [d EXCEPT !.system.clock.tick = @ + 1]
       [] cin = 15 /\ p[2] = 255 -> [d EXCEPT !.system.reset = @ + 1]
       [] OTHER -> d

\* the frame p, dispatched in the inbound state in, is a complete message that is no
\* SysEx: a message frame, a single-byte one only while no stream is open
CompleteMessage(in, p) ==
  p \in MessageFrames /\ ~(Cin(p) = CinSingleByte /\ in.appending)

\* the frame p, dispatched in the inbound state in, is only buffered or is dropped: a
\* single byte or a start or continuation frame of a stream, or an end frame that
\* does not begin with 0xF0 while no stream is open
BufferedOrDropped(in, p) ==
  \/ Cin(p) = CinSingleByte /\ in.appending
  \/ Cin(p) = CinSystemExclusiveStart
  \/ Cin(p) \in {5, 6, 7} /\ ~in.appending /\ p[2] # 240

\* C30: every dispatch() adds exactly one to input.packet; a complete message that is
\* no SysEx is handed to handlePacket once and to the one handler of its status, and
\* adds one to the counter of its kind and to no other; a frame that is only buffered
\* or is dropped calls nothing and counts as a packet only; a frame that completes a
\* well-formed SysEx stream within the capacity adds one to input.system.exclusive and
\* to no other counter but packet, and calls the two SysEx handlers with the message
\* and not handlePacket.
C30_Accounting ==
  [][op' = "dispatch" =>
       /\ statistics'.input.packet = statistics.input.packet + 1
       /\ CompleteMessage(sysex.in, pkt') =>
            /\ Delivered(calls', pkt')
            /\ statistics'.input = Counted(statistics.input, pkt')
       /\ BufferedOrDropped(sysex.in, pkt') =>
            /\ calls' = << >>
            /\ statistics'.input = [statistics.input EXCEPT !.packet = @ + 1]
       /\ (fedSt' = "done" /\ Len(fed') <= sysexSize) =>
            /\ statistics'.input =
                 [statistics.input EXCEPT !.packet = @ + 1, !.system.exclusive = @ + 1]
            /\ Len(calls') = 2
            /\ calls'[1] = <<"handleSystemExclusiveT", "usb", fed', Len(fed')>>
            /\ calls'[2] = <<"handleSystemExclusive", fed', Len(fed')>>]_vars

\* a start frame was buffered, an end frame completed the SysEx, and a NoteOn frame
\* has been delivered and counted after them
C30_Witness ==
  /\ op = "dispatch"
  /\ pkt = <<CinNoteOn, NoteOn + 2, 60, 100>>
  /\ calls = << <<"handlePacket", pkt>>, <<"handleNote", 2, 60, 100>> >>
  /\ statistics.input.packet = 3
  /\ statistics.input.note = 1
  /\ statistics.input.system.exclusive = 1

(***************************************************************************)
(* Properties of the outbound side, continued.                             *)
(***************************************************************************)
\* C31: send() called while no outbound SysEx is pending hands to handleSend the
\* packet with the port index as cable number and its code index, status and data as
\* they were; accepted, send() returns true and output.packet and the counter of the
\* packet's kind, if it has one, grow by one and no other counter changes; refused,
\* send() returns false and no counter changes.
C31_Send ==
  [][(op' = "send" /\ sysex.out.length = 0) =>
       /\ Len(offers') = 1
       /\ offers'[1].via = "handleSend"
       /\ offers'[1].pkt = <<index * 16 + Cin(pkt'), pkt'[2], pkt'[3], pkt'[4]>>
       /\ ret' = offers'[1].ok
       /\ offers'[1].ok =>
            statistics'.output =
              (IF pkt'[2] = SystemExclusive
                 THEN [statistics.output EXCEPT !.packet = @ + 1]
               ELSE Counted(statistics.output, pkt'))
       /\ ~offers'[1].ok => statistics' = statistics
       /\ statistics'.input = statistics.input]_vars

\* a ControlChange packet that came with the cable 3 was accepted with the cable 5 of
\* the port and counted
C31_Witness ==
  /\ op = "send"
  /\ ret = TRUE
  /\ pkt = <<48 + CinControlChange, ControlChange + 2, 60, 100>>
  /\ offers = <<[pkt |-> <<80 + CinControlChange, ControlChange + 2, 60, 100>>,
                 via |-> "handleSend", ok |-> TRUE]>>
  /\ statistics.output.packet = 1
  /\ statistics.output.control = 1

\* C32: a transmission that sendSystemExclusive() left pending completes in a
\* loopSystemExclusive() call that returns 0 and leaves the outbound length 0, with
\* output.system.exclusive grown by one and output.packet by the number of frames of
\* the message; send() on that state is no longer refused; loopSystemExclusive()
\* returns 1 exactly when its frame was accepted and more than three bytes remained,
\* and 0 exactly when it leaves nothing to send.
C32_Completes ==
  /\ (tx = "active") ~>
       (IF op = "loopSystemExclusive"
          THEN /\ tx = "done"
               /\ ret = 0
               /\ sysex.out.length = 0
               /\ statistics.output.system.exclusive = 1
               /\ statistics.output.packet = (Len(sysex.out.buffer) + 2) \div 3
               /\ wire = RefFrames(sysex.out.buffer, index)
               /\ \A p \in SendPackets :
                    send(sysex.out, statistics.output, index, p, TRUE).ret
        ELSE FALSE)
  /\ [][op' = "loopSystemExclusive" =>
          /\ ret' = 1 <=> (/\ offers' # << >>
                           /\ offers'[1].ok
                           /\ sysex.out.length - sysex.out.position > 3)
          /\ ret' = 0 <=> sysex'.out.length = 0]_vars

\* a message of three frames that sendSystemExclusive() left pending has been
\* completed by a loopSystemExclusive() call
C32_Witness ==
  /\ tx = "done"
  /\ op = "loopSystemExclusive"
  /\ Len(offers) = 1
  /\ Len(wire) = 3
  /\ statistics.output.system.exclusive = 1
  /\ statistics.output.packet = 3

(***************************************************************************)
(* Properties of the 14-bit controllers, continued.                        *)
(***************************************************************************)
\* C33: setByte() follows the transition table of a controller.  An MSB byte m: in
\* Init and LowResolution the state becomes LowResolution, in Wait LowResolution,
\* the value m << 7, reported iff it differs from the stored value; in HighResolution
\* the state becomes Wait, nothing is reported, the value stays and m is remembered.
\* An LSB byte l: in Init nothing changes; in the other states the state becomes
\* HighResolution and the value (remembered MSB << 7) | l, reported iff it differs.
\* Only reset() leads back to Init.
C33_Table ==
  /\ [][op' = "setByte" =>
          LET last == ccLog'.calls[Len(ccLog'.calls)]
              old  == controllers[CcPair(last.controller) - ccFirst]
              new  == controllers'[CcPair(last.controller) - ccFirst]
          IN IF last.controller < ControllerLSB
               THEN IF old.state = "HighResolution"
                      THEN /\ new = [state |-> "Wait", msb |-> last.value,
                                     value |-> old.value]
                           /\ ~last.changed
                    ELSE /\ new = [state |-> "LowResolution", msb |-> last.value,
                                   value |-> last.value * 128]
                         /\ last.changed = (last.value * 128 # old.value)
             ELSE IF old.state = "Init"
               THEN new = old /\ ~last.changed
             ELSE /\ new = [state |-> "HighResolution", msb |-> old.msb,
                            value |-> old.msb * 128 + last.value]
                  /\ last.changed = (old.msb * 128 + last.value # old.value)]_vars
  /\ [][(\E i \in 0..(ccSize - 1) :
           controllers[i].state # "Init" /\ controllers'[i].state = "Init")
          => op' = "reset"]_vars

\* MSB, LSB, MSB, MSB on one pair: the second MSB in a row left the state Wait for
\* LowResolution and stored its value, which the deferred MSB had not done
C33_Witness ==
  /\ op = "setByte"
  /\ Len(ccLog.calls) = 4
  /\ ccLog.calls[2].controller = ccFirst + ControllerLSB
  /\ ccLog.calls[3].controller = ccFirst /\ ~ccLog.calls[3].changed
  /\ ccLog.calls[4].controller = ccFirst /\ ccLog.calls[4].changed
  /\ controllers[0] = [state |-> "LowResolution", msb |-> 127, value |-> 16256]

(***************************************************************************)
(* Properties of the Clock, continued.                                     *)
(***************************************************************************)
\* C34: Start sets run and tick 0, Continue sets run and keeps the tick, Stop clears
\* run and keeps the tick; so from a Start until the next Start, setBeat() or reset()
\* the tick is the number of Tick events received while playing, and the
\* handleQuarter() calls made have the arguments 0, 1, 2, ... in this order, one for
\* every 24 of these ticks begun, whatever Stop and Continue events came between.
C34_Position ==
  /\ [][op' = "update" =>
          /\ quarters'.event = "Start" => clock' = [run |-> TRUE, tick |-> 0]
          /\ quarters'.event = "Continue" =>
               clock' = [run |-> TRUE, tick |-> clock.tick]
          /\ quarters'.event = "Stop" =>
               clock' = [run |-> FALSE, tick |-> clock.tick]]_vars
  /\ [](song.started =>
          /\ clock.run = song.playing
          /\ clock.tick = song.ticks
          /\ song.beats = [i \in 1..((song.ticks + 23) \div 24) |-> i - 1])

\* the second quarter note was reported after the song had been stopped and continued
C34_Witness ==
  /\ song.started
  /\ song.paused
  /\ song.beats = <<0, 1>>
  /\ clock.run

(***************************************************************************)
(* Properties of the Standard MIDI File, continued.                        *)
(***************************************************************************)
\* the handleSend() calls the events of the track i stand for, read from the cursor
\* on, each with the tick it is scheduled at: the sum of the deltas up to its event
RECURSIVE Schedule(_, _, _, _, _, _)
ScheduleEvent(f, i, t, r, tick) ==
  IF ~r.ok THEN << >>
  ELSE [k \in 1..Len(SendOf(f, i, r.e)) |->
          [send |-> SendOf(f, i, r.e)[k], at |-> tick + r.e.delta]]
         \o Schedule(f, i, [t EXCEPT !.running = r.running], r.e, r.cursor,
                     tick + r.e.delta)

Schedule(f, i, t, e, cursor, tick) ==
  ScheduleEvent(f, i, t, readEvent(f.data, t, e, cursor), tick)

\* the handleSend() calls of the sequence sends made for the track i
SentBy(sends, i) == SelectSeq(sends, LAMBDA s : s.track = i)

\* C35 as claimed: what a playback has passed to handleSend for a track are the first
\* channel messages of the track in file order, each scheduled at the sum of the
\* deltas up to it, a tick the playback has reached; and a run() that delivers a
\* message also delivers the next one if that is scheduled at the same tick.
C35_Original ==
  /\ [](tracks.state \in {"Play", "Stop"} =>
          /\ \A k \in 1..Len(played.sends) :
               played.sends[k].track < tracks.header.nTracks
          /\ \A i \in 0..(tracks.header.nTracks - 1) :
               LET S == Schedule(tracks, i, Fresh(tracks.tracks[i]), NoEvent, 0, 0)
               IN /\ Len(Sent(i)) <= Len(S)
                  /\ \A k \in 1..Len(Sent(i)) :
                       /\ Sent(i)[k] = S[k].send
                       /\ S[k].at * TickUnit <= tracks.play.tick)
  /\ [][op' = "run" =>
          \A i \in 0..(tracks.header.nTracks - 1) :
            LET S == Schedule(tracks, i, Fresh(tracks.tracks[i]), NoEvent, 0, 0)
                n == Len(SentBy(played'.sends, i))
            IN (n > Len(Sent(i)) /\ n < Len(S)) => S[n + 1].at > S[n].at]_vars

\* the events the track t still holds from the cursor on, as readEvent() returns them
RECURSIVE Ahead(_, _, _, _)
AheadEvent(data, t, r) ==
  IF ~r.ok THEN << >>
  ELSE <<r.e>> \o Ahead(data, [t EXCEPT !.running = r.running], r.e, r.cursor)

Ahead(data, t, e, cursor) == AheadEvent(data, t, readEvent(data, t, e, cursor))

\* the events run() has not handled yet for the track i: the one it has read and
\* delayed, and those the track still holds
Pending(f, i) ==
  IF f.play.tracks[i].end THEN << >>
  ELSE (IF f.play.tracks[i].event.type = "None" THEN << >>
        ELSE <<f.play.tracks[i].event>>)
         \o Ahead(f.data, f.tracks[i], f.play.tracks[i].event, f.play.tracks[i].cursor)

\* the first events of Pending(f, i) that a run() leading from f to g has handled
Handled(f, g, i) ==
  SubSeq(Pending(f, i), 1, Len(Pending(f, i)) - Len(Pending(g, i)))

\* the Tempo events of the sequence es
Tempos(es) == SelectSeq(es, LAMBDA e : e.type = "Meta" /\ e.status = MetaTempo)

\* C36: play() sets a tick duration of 500000 usec / division; a run() leaves the tick
\* duration at (the 24-bit big-endian value of the last Tempo event it handled for
\* track 0) / division, and as it was if it handled none there, whatever it handled
\* for other tracks; and it calls handleSend() once for every channel message of a
\* track it handled, so not at all for a meta or a SysEx event.
C36_Tempo ==
  /\ [][(op' = "play" /\ played'.ok) =>
          tracks'.play.tickDurationUsec =
            [usec |-> 500000, division |-> tracks'.header.division]]_vars
  /\ [][(op' = "run" /\ tracks.state = "Play") =>
          /\ tracks'.play.tickDurationUsec =
               (IF Tempos(Handled(tracks, tracks', 0)) = << >>
                  THEN tracks.play.tickDurationUsec
                ELSE [usec |-> TempoOf(tracks,
                                 Tempos(Handled(tracks, tracks', 0))
                                   [Len(Tempos(Handled(tracks, tracks', 0)))]),
                      division |-> tracks.header.division])
          /\ \A i \in 0..(tracks.header.nTracks - 1) :
               Len(SentBy(played'.sends, i)) - Len(Sent(i)) =
                 Len(SelectSeq(Handled(tracks, tracks', i),
                               LAMBDA e : /\ e.type = "Message"
                                          /\ e.status \in
                                               {NoteOff, NoteOn, Aftertouch,
                                                ControlChange, ProgramChange,
                                                AftertouchChannel, PitchBend}))]_vars

\* the first run() of the file of meta events has handled the text, the SysEx event
\* and the tempo of track 0 and the tempo and the NoteOn of track 1: the tempo is the
\* one of track 0 and the NoteOn is the only handleSend() call
C36_Witness ==
  /\ op = "run"
  /\ tracks.data = FileMeta
  /\ tracks.play.tracks[0].end /\ tracks.play.tracks[1].end
  /\ tracks.play.tickDurationUsec = [usec |-> 250000, division |-> 4]
  /\ played.sends = <<[track |-> 1, packet |-> <<9, 145, 64, 127>>]>>

(***************************************************************************)
(* Properties of the serial parser, continued.                             *)
(***************************************************************************)
\* the packet receive() returned on the n-th byte, << >> if it returned false
ReturnedAt(n) ==
  IF \E k \in 1..Len(rxOut) : rxOut[k].at = n
    THEN (CHOOSE o \in {rxOut[k] : k \in 1..Len(rxOut)} : o.at = n).data
  ELSE << >>

\* the last status byte among the first n bytes received, 0 if there is none
RECURSIVE LastStatus(_)
LastStatus(n) ==
  IF n = 0 THEN 0 ELSE IF rxBytes[n] >= 128 THEN rxBytes[n] ELSE LastStatus(n - 1)

\* C37 as claimed: on the data byte after 0xF1 or 0xF3 and on the second data byte
\* after 0xF2 receive() returns a packet with that status byte, the code index number
\* 2 or 3 and the data bytes received; on 0xF6 it returns a single-byte packet; and
\* every packet it returns carries the status byte of the message that ended there.
C37_Original ==
  \A n \in 1..Len(rxBytes) :
    /\ (n >= 2 /\ rxBytes[n] < 128
          /\ rxBytes[n - 1] \in {SystemTimeCodeQuarterFrame, SystemSongSelect}) =>
         ReturnedAt(n) = <<CinSystemCommon2, rxBytes[n - 1], rxBytes[n], 0>>
    /\ (n >= 3 /\ rxBytes[n] < 128 /\ rxBytes[n - 1] < 128
          /\ rxBytes[n - 2] = SystemSongPosition) =>
         ReturnedAt(n) = <<CinSystemCommon3, SystemSongPosition, rxBytes[n - 1],
                           rxBytes[n]>>
    /\ rxBytes[n] = SystemTuneRequest =>
         ReturnedAt(n) = <<CinSingleByte, SystemTuneRequest, 0, 0>>
    /\ ReturnedAt(n) # << >> => ReturnedAt(n)[2] = LastStatus(n)

(***************************************************************************)
(* Properties of the inbound side, continued.                              *)
(***************************************************************************)
\* the last dispatch() handed a reassembled SysEx message to the handlers
Completed ==
  /\ op = "dispatch"
  /\ Cin(pkt) \in {CinSystemExclusiveEnd1, CinSystemExclusiveEnd2, CinSystemExclusiveEnd3}
  /\ SysExCalls(calls) = 1
  /\ ~sysex.in.appending

\* the SysEx handler calls of dispatch(transport, ...) for the message msg
Delivery(transport, msg) ==
  << <<"handleSystemExclusiveT", transport, msg, Len(msg)>>,
     <<"handleSystemExclusive", msg, Len(msg)>> >>

\* C38 as claimed: right after a SysEx message was delivered, whatever its length, a
\* start frame that fits in the buffer opens a stream with its three bytes, and a
\* two- or three-byte message in one end frame that fits in the buffer is delivered.
C38_Original ==
  [][(Completed /\ op' = "dispatch" /\ pkt'[2] = SystemExclusive) =>
       /\ (Cin(pkt') = CinSystemExclusiveStart /\ 3 <= sysexSize
             /\ pkt'[3] < 128 /\ pkt'[4] < 128) =>
            /\ sysex'.in.appending
            /\ sysex'.in.length = 3
            /\ SubSeq(sysex'.in.buffer, 1, 3) = Tail(pkt')
            /\ calls' = << >>
       /\ (Cin(pkt') = CinSystemExclusiveEnd2 /\ 2 <= sysexSize
             /\ pkt'[3] = SystemExclusiveEnd) =>
            \E transport \in Transports :
              calls' = Delivery(transport, <<SystemExclusive, SystemExclusiveEnd>>)
       /\ (Cin(pkt') = CinSystemExclusiveEnd3 /\ 3 <= sysexSize
             /\ pkt'[3] < 128 /\ pkt'[4] = SystemExclusiveEnd) =>
            \E transport \in Transports :
              calls' = Delivery(transport,
                                <<SystemExclusive, pkt'[3], SystemExclusiveEnd>>)]_vars

(***************************************************************************)
(* Properties of the outbound side under re-entry.                         *)
(***************************************************************************)
\* the message of the pending transmission
PendingMessage(out) == SubSeq(out.buffer, 1, out.length)

\* C39 as claimed: while a transmission is pending, the frames a transport accepts
\* in a send(), sendSystemExclusive() or loopSystemExclusive() call are the next
\* frames of the pending message, and the call leaves the rest of that message
\* pending: it neither replaces the message nor moves the position back.
C39_Original ==
  [][(sysex.out.length > 0
        /\ op' \in {"send", "sendSystemExclusive", "loopSystemExclusive"}) =>
       /\ IsPrefix(wire \o Accepted(offers'),
                   RefFrames(PendingMessage(sysex.out), index))
       /\ sysex'.out.length > 0 =>
            /\ PendingMessage(sysex'.out) = PendingMessage(sysex.out)
            /\ sysex'.out.position >= sysex.out.position]_vars

\* C40: whatever frames are dispatched and whatever the capacity, 0 included, the
\* inbound length and the bytes written to the inbound buffer stay within the
\* capacity, and so does every buffer and length handed to the SysEx handlers.
C40_Bound ==
  /\ sysex.in.length <= sysexSize
  /\ Len(sysex.in.buffer) <= sysexSize
  /\ \A i \in 1..Len(calls) :
       /\ calls[i][1] = "handleSystemExclusiveT" =>
            Len(calls[i][3]) <= sysexSize /\ calls[i][4] <= sysexSize
       /\ calls[i][1] = "handleSystemExclusive" =>
            Len(calls[i][2]) <= sysexSize /\ calls[i][3] <= sysexSize

\* a stream had filled a buffer of four bytes with a start frame and a single-byte
\* frame, and the next single-byte frame was turned down
C40_Witness ==
  /\ sysexSize = 4
  /\ op = "dispatch"
  /\ Cin(pkt) = CinSingleByte
  /\ cut = "overflow"
  /\ statistics.input.packet = 3
  /\ sysex.in.length = 0
  /\ calls = << >>

====
